---- MODULE Spec2Model ----
(***************************************************************************)
(* A model of ext/live_buttons.py: the ShopView button handlers, the two   *)
(* modals (PurchaseModal, RegisterModal) and the LiveButtonManager.        *)
(*                                                                         *)
(* Every handler is an asyncio task.  A task runs without interruption     *)
(* from one await to the next, so each action below is "the pending await  *)
(* completes and the code runs up to the next await".  The value of pc is  *)
(* the await the task is suspended at.                                     *)
(*                                                                         *)
(* A pending call ends in one of these ways: it returns ("ok", with the    *)
(* variants of the returned data the code distinguishes), it returns a     *)
(* response with success = False ("fail"), it raises ("raise"), or it      *)
(* never returns ("hang").  A call that never returns ends in              *)
(* asyncio.TimeoutError when it is inside an asyncio.timeout block, and    *)
(* leaves the task suspended for ever ("hung") when it is not.             *)
(***************************************************************************)
EXTENDS Integers, Sequences, FiniteSets, TLC

VARIABLES
    \* ---- ShopView ----
    req,          \* request slot -> state of the button press handled in it
    rlocks,       \* the response-lock keys currently held
    keyByAction,  \* whether the response lock is keyed by user+action or by user
    maint,        \* AdminService maintenance flag
    maintSince,   \* maintenance mode has been active ever since the start
    cache,        \* cache key -> its entry: the TTL it was set with and its age
    \* ---- PurchaseModal, RegisterModal ----
    sub,          \* submission slot -> state of a PurchaseModal.on_submit
    reg,          \* submission slot -> state of a RegisterModal.on_submit
    \* ---- LiveButtonManager ----
    task,             \* task -> the manager method it runs and where it is
    current_message,  \* self.current_message
    stock_manager,    \* self.stock_manager is the provider (TRUE) or None (FALSE)
    ready,            \* self._ready.is_set()
    retries,          \* self.initialization_retries
    mlock,            \* holder of self._lock, or "free"
    provMsg,          \* the provider's current_stock_message
    chan,             \* message id -> the message in the stock channel
    nextId,           \* id of the next message sent to the channel
    nCreated,         \* messages the manager has sent to the channel
    hist,             \* the last return of get_or_create_message and the one before
    disturbed,        \* a call failed or a message was deleted, at some time
    world,            \* what get_cog, the provider's _ready and get_channel give
    \* ---- LiveButtonsCog ----
    cog_ready,            \* the cog's self._ready.is_set()
    initialization_lock   \* holder of the cog's self._initialization_lock, or "free"

vView == <<req, rlocks, keyByAction>>
vModal == <<sub, reg>>
vMgr == <<task, current_message, stock_manager, ready, retries, mlock, provMsg,
          chan, nextId, nCreated, hist, disturbed, world>>
vCog == <<cog_ready, initialization_lock>>
notView == <<vModal, vMgr, vCog>>
notModal == <<vView, vMgr, vCog>>
notMgr == <<vView, vModal, cache, vCog>>
vars == <<vView, vModal, vMgr, vCog, maint, maintSince, cache>>

(***************************************************************************)
(* Bounds.                                                                 *)
(***************************************************************************)
MaxProducts == 2

\* Presses of different users share neither a lock key nor a cache key, so the
\* handlers of one user are modelled; two slots hold the presses in flight, and
\* a slot is used again once its press has been answered.
Users == {"u1"}
Actions == {"register", "balance", "world", "buy", "history"}
Req == {"r1", "r2"}

(***************************************************************************)
(* ShopView: state of one button press.                                    *)
(*   isDone   interaction.response.is_done()                               *)
(*   sent     terminal responses delivered to the interaction              *)
(*   msg      the message pending (pc = "err"/"cooldown") or delivered     *)
(*   left, avail   the stock loop of buy_callback                          *)
(*   lookup   how get_growid of register_callback answered ("none": not    *)
(*            asked yet)                                                   *)
(*   existing the RegisterModal was built with an existing_growid          *)
(***************************************************************************)
IdleReq ==
    [pc |-> "idle", act |-> "none", usr |-> "none", isDone |-> FALSE,
     sent |-> 0, msg |-> "none", left |-> 0, avail |-> FALSE,
     lookup |-> "none", existing |-> FALSE]

\* The key of the response lock of a press (ext/base_handler.py).
LockKey(u, a) == IF keyByAction THEN <<u, a>> ELSE <<u, "any">>

\* acquire_response_lock: non-blocking, fails when the key is held.
AcquireResponseLock(u, a) == LockKey(u, a) \notin rlocks

\* release_response_lock: the key is free afterwards.
ReleaseResponseLock(u, a) == rlocks \ {LockKey(u, a)}

\* MESSAGES.ERROR[...] used by the handler's `except Exception` branch.
FailedMsg(a) ==
    CASE a = "register" -> "REGISTRATION_FAILED"
      [] a = "balance"  -> "BALANCE_FAILED"
      [] a = "world"    -> "WORLD_INFO_FAILED"
      [] a = "buy"      -> "TRANSACTION_FAILED"
      [] a = "history"  -> "HISTORY_FAILED"

\* The first await of each handler's try block.
FirstAwait(a) == IF a = "buy" THEN "rl_get" ELSE "maint"

\* The rate-limit cache key of a handler.
RateKey(a, u) == IF a = "register" THEN <<"register_limit", u>> ELSE <<"buy_button", u>>

\* The two expiry times exchanged.
RateTTL_Swapped(a) == IF a = "register" THEN 60 ELSE 300

\* expires_in of the handler's cache_manager.set (lines 456, 772).
RateTTL(a) == IF a = "register" THEN 300 ELSE 60

(***************************************************************************)
(* CacheManager (ext/cache_manager.py): a key set with expires_in = ttl is *)
(* a hit while less than ttl time units have passed since, a miss after.   *)
(***************************************************************************)
CacheKeys == {<<n, u>> : n \in {"register_limit", "buy_button", "purchase_limit"},
                         u \in Users}
NoEntry == [ttl |-> 0, age |-> 0]
CacheHit(k) == cache[k].age < cache[k].ttl
CacheSet(k, ttl) == [cache EXCEPT ![k] = [ttl |-> ttl, age |-> 0]]

\* The cache after d more time units.
Elapsed(d) ==
    [k \in CacheKeys |->
        [cache[k] EXCEPT !.age = IF @ + d > cache[k].ttl THEN cache[k].ttl ELSE @ + d]]

SetReq(r, rec) == req' = [req EXCEPT ![r] = rec]

\* `raise ValueError(m)` / an unclassified exception: the except branch awaits
\* _handle_interaction_error with message m.
Raised(rec, m) == [rec EXCEPT !.pc = "err", !.msg = m]

\* A call that raised: `except Exception` of the handler.
Crashed(rec) == [rec EXCEPT !.pc = "err", !.msg = FailedMsg(rec.act)]

\* A call outside any asyncio.timeout block that never returns.
Hung(rec) == [rec EXCEPT !.pc = "hung"]

\* _handle_interaction_error: send_message when the interaction has no response
\* yet, followup.send otherwise; both deliver the message.
Delivered(rec) == [rec EXCEPT !.sent = @ + 1, !.isDone = TRUE]

(***************************************************************************)
(* A button is pressed: the handler starts and tries the response lock.    *)
(***************************************************************************)
Press_NoReturn(r) ==
    /\ req[r].pc \in {"idle", "done"}
    /\ \E u \in Users, a \in Actions :
          /\ rlocks' = rlocks \cup {LockKey(u, a)}
          /\ SetReq(r, [IdleReq EXCEPT !.pc = FirstAwait(a), !.act = a, !.usr = u])
    /\ UNCHANGED <<keyByAction, maint, maintSince, cache, notView>>

Press(r) ==
    /\ req[r].pc \in {"idle", "done"}
    /\ \E u \in Users, a \in Actions :
          IF AcquireResponseLock(u, a)
          THEN /\ rlocks' = rlocks \cup {LockKey(u, a)}
               /\ SetReq(r, [IdleReq EXCEPT !.pc = FirstAwait(a), !.act = a, !.usr = u])
          ELSE /\ rlocks' = rlocks
               /\ SetReq(r, [IdleReq EXCEPT !.pc = "cooldown", !.act = a, !.usr = u,
                                            !.msg = "COOLDOWN"])
    /\ UNCHANGED <<keyByAction, maint, maintSince, cache, notView>>

\* The denied press goes through the finally clause as well.
CooldownSend_Releases(r) ==
    /\ req[r].pc = "cooldown"
    /\ SetReq(r, [Delivered(req[r]) EXCEPT !.pc = "done"])
    /\ rlocks' = ReleaseResponseLock(req[r].usr, req[r].act)
    /\ UNCHANGED <<keyByAction, maint, maintSince, cache, notView>>

\* The cooldown message is delivered and the handler returns.
CooldownSend(r) ==
    /\ req[r].pc = "cooldown"
    /\ SetReq(r, [Delivered(req[r]) EXCEPT !.pc = "done"])
    /\ UNCHANGED <<rlocks, keyByAction, maint, maintSince, cache, notView>>

\* `finally: self.release_response_lock(interaction)`.
Finally_NotOnError(r, rec) ==
    /\ SetReq(r, [rec EXCEPT !.pc = "done"])
    /\ rlocks' = IF rec.msg \in {"modal", "result"}
                 THEN ReleaseResponseLock(rec.usr, rec.act) ELSE rlocks

Finally(r, rec) ==
    /\ SetReq(r, [rec EXCEPT !.pc = "done"])
    /\ rlocks' = ReleaseResponseLock(rec.usr, rec.act)

\* The error message of the except branch is delivered; finally.
ErrSend(r) ==
    /\ req[r].pc = "err"
    /\ Finally(r, Delivered(req[r]))
    /\ UNCHANGED <<keyByAction, maint, maintSince, cache, notView>>

\* is_maintenance_mode() returns (no timeout around it in any handler).
NextAfterMaint(a) ==
    CASE a = "register" -> "rl_get"
      [] a = "buy"      -> "blacklist"
      [] OTHER          -> "defer"

Maint(r) ==
    /\ req[r].pc = "maint"
    /\ \E o \in {"ok", "raise", "hang"} :
          SetReq(r, CASE o = "ok" ->
                          IF maint THEN Raised(req[r], "MAINTENANCE")
                          ELSE [req[r] EXCEPT !.pc = NextAfterMaint(req[r].act)]
                      [] o = "raise" -> Crashed(req[r])
                      [] o = "hang"  -> Hung(req[r]))
    /\ UNCHANGED <<rlocks, keyByAction, maint, maintSince, cache, notView>>

\* interaction.response.defer() of balance, world info and history.
AfterDefer(a) == IF a = "world" THEN "world" ELSE "growid"

Defer(r) ==
    /\ req[r].pc = "defer"
    /\ \E o \in {"ok", "raise", "hang"} :
          SetReq(r, CASE o = "ok" -> [req[r] EXCEPT !.pc = AfterDefer(req[r].act),
                                                    !.isDone = TRUE]
                      [] o = "raise" -> Crashed(req[r])
                      [] o = "hang"  -> Hung(req[r]))
    /\ UNCHANGED <<rlocks, keyByAction, maint, maintSince, cache, notView>>

\* followup.send(embed=...) of the result, or send_modal: the terminal response
\* of the success path; finally.
Respond(r) ==
    /\ req[r].pc \in {"followup", "send_modal"}
    /\ Finally(r, [Delivered(req[r]) EXCEPT
                       !.msg = IF req[r].pc = "send_modal" THEN "modal" ELSE "result"])
    /\ UNCHANGED <<keyByAction, maint, maintSince, cache, notView>>

(***************************************************************************)
(* register_callback and buy_callback.                                     *)
(***************************************************************************)
\* transaction_queue.queue.qsize() as buy_callback may read it.
QueueSizes == {0, 50, 51}

\* The flag is set as soon as the rate-limit check has passed.
RateGet_SetsOnMiss(r) ==
    /\ req[r].pc = "rl_get"
    /\ \E o \in {"ok", "raise", "hang"}, q \in QueueSizes :
          LET hit == CacheHit(RateKey(req[r].act, req[r].usr))
          IN  /\ SetReq(r, CASE o = "ok" ->
                                IF hit THEN Raised(req[r], "RATE_LIMIT")
                                ELSE IF req[r].act = "buy"
                                     THEN IF q > 50 THEN Raised(req[r], "SYSTEM_BUSY")
                                          ELSE [req[r] EXCEPT !.pc = "maint"]
                                     ELSE [req[r] EXCEPT !.pc = "blacklist"]
                            [] o = "raise" -> Crashed(req[r])
                            [] o = "hang"  -> Hung(req[r]))
              /\ cache' = IF o = "ok" /\ ~hit
                          THEN CacheSet(RateKey(req[r].act, req[r].usr), RateTTL(req[r].act))
                          ELSE cache
    /\ UNCHANGED <<rlocks, keyByAction, maint, maintSince, notView>>

\* cache_manager.get(rate_limit_key); buy_callback then reads the queue size.
RateGet(r) ==
    /\ req[r].pc = "rl_get"
    /\ \E o \in {"ok", "raise", "hang"}, q \in QueueSizes :
          SetReq(r, CASE o = "ok" ->
                          IF CacheHit(RateKey(req[r].act, req[r].usr))
                          THEN Raised(req[r], "RATE_LIMIT")
                          ELSE IF req[r].act = "buy"
                               THEN IF q > 50 THEN Raised(req[r], "SYSTEM_BUSY")
                                    ELSE [req[r] EXCEPT !.pc = "maint"]
                               ELSE [req[r] EXCEPT !.pc = "blacklist"]
                      [] o = "raise" -> Crashed(req[r])
                      [] o = "hang"  -> Hung(req[r]))
    /\ UNCHANGED <<rlocks, keyByAction, maint, maintSince, cache, notView>>

\* admin_service.check_blacklist(user): "listed" is success with data.
Blacklist(r) ==
    /\ req[r].pc = "blacklist"
    /\ \E o \in {"listed", "clear", "fail", "raise", "hang"} :
          SetReq(r, CASE o = "listed" -> Raised(req[r], "USER_BLACKLISTED")
                      [] o = "clear"  -> [req[r] EXCEPT !.pc = "growid"]
                      [] o = "fail"   -> [req[r] EXCEPT !.pc = "growid"]
                      [] o = "raise"  -> Crashed(req[r])
                      [] o = "hang"   -> Hung(req[r]))
    /\ UNCHANGED <<rlocks, keyByAction, maint, maintSince, cache, notView>>

\* How get_growid answers: success with the alias, success without data, failure.
Lookups == {"data", "nodata", "fail"}

\* Every answer but a failure counts as an alias.
ExistingGrowid_AnySuccess(o) == o \in {"data", "nodata"}

\* existing_growid is not None (lines 438-441).
ExistingGrowid(o) == o = "data"

\* register_callback: get_growid; with or without an alias the RegisterModal is
\* built, with the alias found or with None.
RegisterGrowid(r) ==
    /\ req[r].pc = "growid" /\ req[r].act = "register"
    /\ \E o \in Lookups \cup {"raise", "hang"} :
          SetReq(r, CASE o \in Lookups -> [req[r] EXCEPT !.pc = "rl_set", !.lookup = o,
                                                        !.existing = ExistingGrowid(o)]
                      [] o = "raise" -> Crashed(req[r])
                      [] o = "hang"  -> Hung(req[r]))
    /\ UNCHANGED <<rlocks, keyByAction, maint, maintSince, cache, notView>>

\* buy_callback: get_growid; a failed lookup shows the backend's error text.
BuyGrowid(r) ==
    /\ req[r].pc = "growid" /\ req[r].act = "buy"
    /\ \E o \in {"ok", "fail", "raise", "hang"} :
          SetReq(r, CASE o = "ok"    -> [req[r] EXCEPT !.pc = "products"]
                      [] o = "fail"  -> Raised(req[r], "BACKEND_ERROR")
                      [] o = "raise" -> Crashed(req[r])
                      [] o = "hang"  -> Hung(req[r]))
    /\ UNCHANGED <<rlocks, keyByAction, maint, maintSince, cache, notView>>

\* buy_callback: get_all_products() inside asyncio.timeout(10); n products come back.
BuyProducts(r) ==
    /\ req[r].pc = "products"
    /\ \E o \in {"ok", "fail", "raise", "hang"}, n \in 0..MaxProducts :
          SetReq(r, CASE o = "ok" ->
                          IF n = 0 THEN Raised(req[r], "NO_PRODUCTS")
                          ELSE [req[r] EXCEPT !.pc = "stock", !.left = n, !.avail = FALSE]
                      [] o = "fail"  -> Raised(req[r], "NO_PRODUCTS")
                      [] o = "raise" -> Crashed(req[r])
                      [] o = "hang"  -> Raised(req[r], "TIMEOUT"))
    /\ UNCHANGED <<rlocks, keyByAction, maint, maintSince, cache, notView>>

\* buy_callback: get_stock_count(code) of the next product inside asyncio.timeout(5);
\* a timeout or an exception skips the product.  After the last product the list of
\* available products decides.
BuyStock(r) ==
    /\ req[r].pc = "stock"
    /\ \E o \in {"instock", "empty", "raise", "hang"} :
          LET av  == req[r].avail \/ (o = "instock")
              rec == [req[r] EXCEPT !.left = @ - 1, !.avail = av]
          IN  SetReq(r, IF rec.left > 0 THEN rec
                        ELSE IF av THEN [rec EXCEPT !.pc = "rl_set", !.avail = FALSE]
                        ELSE [Raised(rec, "OUT_OF_STOCK") EXCEPT !.avail = FALSE])
    /\ UNCHANGED <<rlocks, keyByAction, maint, maintSince, cache, notView>>

\* cache_manager.set(rate_limit_key, True, expires_in=...), then send_modal is awaited.
RateSet(r) ==
    /\ req[r].pc = "rl_set"
    /\ \E o \in {"ok", "raise", "hang"} :
          /\ SetReq(r, CASE o = "ok"    -> [req[r] EXCEPT !.pc = "send_modal"]
                         [] o = "raise" -> Crashed(req[r])
                         [] o = "hang"  -> Hung(req[r]))
          /\ cache' = IF o = "ok"
                      THEN CacheSet(RateKey(req[r].act, req[r].usr), RateTTL(req[r].act))
                      ELSE cache
    /\ UNCHANGED <<rlocks, keyByAction, maint, maintSince, notView>>

(***************************************************************************)
(* balance_callback, world_info_callback, history_callback.                *)
(***************************************************************************)
\* balance_callback: get_growid; "none" is success without data.
BalanceGrowid(r) ==
    /\ req[r].pc = "growid" /\ req[r].act = "balance"
    /\ \E o \in {"ok", "none", "fail", "raise", "hang"} :
          SetReq(r, CASE o = "ok"    -> [req[r] EXCEPT !.pc = "balance"]
                      [] o = "none"  -> Raised(req[r], "NOT_REGISTERED")
                      [] o = "fail"  -> Raised(req[r], "BACKEND_ERROR")
                      [] o = "raise" -> Crashed(req[r])
                      [] o = "hang"  -> Hung(req[r]))
    /\ UNCHANGED <<rlocks, keyByAction, maint, maintSince, cache, notView>>

\* balance_callback: get_balance(growid) inside asyncio.timeout(10).
BalanceGet(r) ==
    /\ req[r].pc = "balance"
    /\ \E o \in {"ok", "fail", "raise", "hang"} :
          SetReq(r, CASE o = "ok"    -> [req[r] EXCEPT !.pc = "history"]
                      [] o = "fail"  -> Raised(req[r], "BACKEND_ERROR")
                      [] o = "raise" -> Crashed(req[r])
                      [] o = "hang"  -> Raised(req[r], "TIMEOUT"))
    /\ UNCHANGED <<rlocks, keyByAction, maint, maintSince, cache, notView>>

\* balance_callback: get_transaction_history(growid, limit=3) inside asyncio.timeout(10);
\* a timeout and an exception are logged only.
BalanceHistory(r) ==
    /\ req[r].pc = "history"
    /\ \E o \in {"ok", "raise", "hang"} :
          SetReq(r, [req[r] EXCEPT !.pc = "daily_limit"])
    /\ UNCHANGED <<rlocks, keyByAction, maint, maintSince, cache, notView>>

\* balance_callback: get_daily_limit then get_daily_usage, no timeout; an
\* exception of either is logged only and the embed is sent.
BalanceDaily(r) ==
    /\ req[r].pc \in {"daily_limit", "daily_usage"}
    /\ \E o \in {"ok", "raise", "hang"} :
          SetReq(r, CASE o = "ok" ->
                          [req[r] EXCEPT !.pc = IF req[r].pc = "daily_limit"
                                                THEN "daily_usage" ELSE "followup"]
                      [] o = "raise" -> [req[r] EXCEPT !.pc = "followup"]
                      [] o = "hang"  -> Hung(req[r]))
    /\ UNCHANGED <<rlocks, keyByAction, maint, maintSince, cache, notView>>

\* world_info_callback: get_world_info() inside asyncio.timeout(10).
WorldInfo(r) ==
    /\ req[r].pc = "world"
    /\ \E o \in {"ok", "fail", "raise", "hang"} :
          SetReq(r, CASE o = "ok"    -> [req[r] EXCEPT !.pc = "followup"]
                      [] o = "fail"  -> Raised(req[r], "BACKEND_ERROR")
                      [] o = "raise" -> Crashed(req[r])
                      [] o = "hang"  -> Raised(req[r], "TIMEOUT"))
    /\ UNCHANGED <<rlocks, keyByAction, maint, maintSince, cache, notView>>

\* history_callback: get_growid, no timeout.
HistoryGrowid(r) ==
    /\ req[r].pc = "growid" /\ req[r].act = "history"
    /\ \E o \in {"ok", "fail", "raise", "hang"} :
          SetReq(r, CASE o = "ok"    -> [req[r] EXCEPT !.pc = "hist"]
                      [] o = "fail"  -> Raised(req[r], "BACKEND_ERROR")
                      [] o = "raise" -> Crashed(req[r])
                      [] o = "hang"  -> Hung(req[r]))
    /\ UNCHANGED <<rlocks, keyByAction, maint, maintSince, cache, notView>>

\* history_callback: get_transaction_history(growid, limit=5) inside asyncio.timeout(10).
HistoryGet(r) ==
    /\ req[r].pc = "hist"
    /\ \E o \in {"ok", "empty", "fail", "raise", "hang"} :
          SetReq(r, CASE o = "ok"    -> [req[r] EXCEPT !.pc = "followup"]
                      [] o = "empty" -> Raised(req[r], "NO_HISTORY")
                      [] o = "fail"  -> Raised(req[r], "BACKEND_ERROR")
                      [] o = "raise" -> Crashed(req[r])
                      [] o = "hang"  -> Raised(req[r], "TIMEOUT"))
    /\ UNCHANGED <<rlocks, keyByAction, maint, maintSince, cache, notView>>

(***************************************************************************)
(* Text typed into a modal field: a sequence of characters.                *)
(***************************************************************************)
MaxQtyLen == 4
MaxAliasLen == 4
MinAliasLen == 3

Digits == {"0", "1", "2", "3", "4", "5", "6", "7", "8", "9"}
DigitVal(c) ==
    CASE c = "0" -> 0 [] c = "1" -> 1 [] c = "2" -> 2 [] c = "3" -> 3 [] c = "4" -> 4
      [] c = "5" -> 5 [] c = "6" -> 6 [] c = "7" -> 7 [] c = "8" -> 8 [] c = "9" -> 9

\* The characters a quantity is typed from, and the texts of 1..MaxQtyLen of them.
QtyChars == {"0", "1", "9", "-", "+", " ", "_", "a"}
TextsOver(chars, lo, hi) == UNION {[1..n -> chars] : n \in lo..hi}
AllQtyTexts == TextsOver(QtyChars, 1, MaxQtyLen)

\* str.strip(): leading and trailing blanks removed.
RECURSIVE LStrip(_)
LStrip(t) == IF t # <<>> /\ Head(t) = " " THEN LStrip(Tail(t)) ELSE t
RECURSIVE RStrip(_)
RStrip(t) == IF t # <<>> /\ t[Len(t)] = " " THEN RStrip(SubSeq(t, 1, Len(t) - 1)) ELSE t
Strip(t) == RStrip(LStrip(t))

\* int(text): blanks around are ignored, one sign may lead, the rest is decimal
\* digits with single underscores allowed between digits.
Unsigned(t) == IF t # <<>> /\ Head(t) \in {"+", "-"} THEN Tail(t) ELSE t
Negative(t) == t # <<>> /\ Head(t) = "-"
IsDecimal(d) ==
    /\ d # <<>>
    /\ d[1] \in Digits /\ d[Len(d)] \in Digits
    /\ \A i \in 1..Len(d) : d[i] \in Digits \cup {"_"}
    /\ \A i \in 1..(Len(d) - 1) : ~(d[i] = "_" /\ d[i + 1] = "_")
RECURSIVE DecimalVal(_, _)
DecimalVal(d, acc) ==
    IF d = <<>> THEN acc
    ELSE IF Head(d) = "_" THEN DecimalVal(Tail(d), acc)
    ELSE DecimalVal(Tail(d), 10 * acc + DigitVal(Head(d)))
IntParses(t) == IsDecimal(Unsigned(Strip(t)))
IntValue(t) ==
    LET v == DecimalVal(Unsigned(Strip(t)), 0)
    IN  IF Negative(Strip(t)) THEN 0 - v ELSE v

\* PurchaseModal.on_submit, the validation of the quantity field: int() raises
\* ValueError or the value is outside 1..999.
QuantityValid_Off(t) == IntParses(t) /\ ~(IntValue(t) < 0 \/ IntValue(t) > 999)

QuantityValid(t) == IntParses(t) /\ ~(IntValue(t) <= 0 \/ IntValue(t) > 999)

\* str.isalnum(): at least one character, all of them letters or digits.
Letters == {"a", "B"}
IsAlnum(t) == t # <<>> /\ \A i \in 1..Len(t) : t[i] \in Letters \cup Digits

\* str.replace('_', '').
RECURSIVE DropUnderscores(_)
DropUnderscores(t) ==
    IF t = <<>> THEN <<>>
    ELSE IF Head(t) = "_" THEN DropUnderscores(Tail(t))
    ELSE <<Head(t)>> \o DropUnderscores(Tail(t))

\* RegisterModal.on_submit, the validation of the alias.
AliasValid(t) == IsAlnum(DropUnderscores(Strip(t)))

\* The characters an alias is typed from; the field holds MinAliasLen..max_length of them.
AliasChars == {"a", "1", "_", " ", "-"}
AllAliasTexts == TextsOver(AliasChars, MinAliasLen, MaxAliasLen)

(***************************************************************************)
(* PurchaseModal.on_submit.                                                *)
(*   rsent    the local response_sent                                      *)
(*   retry    the local retry_count of the running retry loop              *)
(*   key      index of the cache key being invalidated (1..3)              *)
(*   qtext, qty   the quantity field as typed and as parsed                *)
(*   bought   process_purchase calls issued                                *)
(*   queued   add_transaction calls issued                                 *)
(*   hasResp  purchase_response is bound                                   *)
(*   recov    recover_failed_transaction calls issued                      *)
(*   tried    the cache_manager.delete calls made: key index and outcome   *)
(***************************************************************************)
Sub == {"s1", "s2"}
NoText == <<>>

IdleSub ==
    [pc |-> "idle", usr |-> "none", isDone |-> FALSE, rsent |-> FALSE, sent |-> 0,
     msg |-> "none", retry |-> 0, key |-> 0, qtext |-> NoText, qty |-> 0,
     bought |-> 0, queued |-> 0, hasResp |-> FALSE, recov |-> 0, tried |-> <<>>]

SetSub(s, rec) == sub' = [sub EXCEPT ![s] = rec]

PurchaseKey(u) == <<"purchase_limit", u>>
PurchaseTTL == 300

\* `raise ValueError(m)`: the except branch awaits the send of m.
SubRaised(rec, m) == [rec EXCEPT !.pc = "err", !.msg = m]

\* `except Exception`: recover_failed_transaction is awaited when purchase_response
\* is bound, the send of TRANSACTION_FAILED otherwise.
SubCrashed(rec) ==
    IF rec.hasResp
    THEN [rec EXCEPT !.pc = "recover", !.msg = "TRANSACTION_FAILED", !.recov = @ + 1]
    ELSE [rec EXCEPT !.pc = "err", !.msg = "TRANSACTION_FAILED"]

SubHung(rec) == [rec EXCEPT !.pc = "hung"]

\* The modal is submitted: on_submit starts and awaits cache_manager.get.
Submit(s) ==
    /\ sub[s].pc \in {"idle", "done"}
    /\ \E u \in Users : SetSub(s, [IdleSub EXCEPT !.pc = "rl_get", !.usr = u])
    /\ UNCHANGED <<reg, maint, maintSince, cache, notModal>>

\* cache_manager.get(rate_limit_key) returns; no timeout.
SubRateGet(s) ==
    /\ sub[s].pc = "rl_get"
    /\ \E o \in {"ok", "raise", "hang"} :
          SetSub(s, CASE o = "ok" ->
                          IF CacheHit(PurchaseKey(sub[s].usr))
                          THEN SubRaised(sub[s], "RATE_LIMIT")
                          ELSE [sub[s] EXCEPT !.pc = "defer"]
                      [] o = "raise" -> SubCrashed(sub[s])
                      [] o = "hang"  -> SubHung(sub[s]))
    /\ UNCHANGED <<reg, maint, maintSince, cache, notModal>>

\* interaction.response.defer(ephemeral=True); no timeout.
SubDefer(s) ==
    /\ sub[s].pc = "defer"
    /\ \E o \in {"ok", "raise", "hang"} :
          SetSub(s, CASE o = "ok" -> [sub[s] EXCEPT !.pc = "rl_set", !.isDone = TRUE,
                                                    !.rsent = TRUE, !.retry = 0]
                      [] o = "raise" -> SubCrashed(sub[s])
                      [] o = "hang"  -> SubHung(sub[s]))
    /\ UNCHANGED <<reg, maint, maintSince, cache, notModal>>

\* Lines 123-140: the fields are read and validated; a valid quantity goes on to
\* get_growid.
Validated(rec, t) ==
    IF QuantityValid(t)
    THEN [rec EXCEPT !.pc = "growid", !.qtext = t, !.qty = IntValue(t)]
    ELSE [SubRaised(rec, "INVALID_AMOUNT") EXCEPT !.qtext = t]

\* The input is validated first and the flag set only for a valid quantity.
SubRateSet_ValidateFirst(s, texts) ==
    /\ sub[s].pc = "rl_set"
    /\ \E t \in texts :
          /\ SetSub(s, Validated(sub[s], t))
          /\ cache' = IF QuantityValid(t)
                      THEN CacheSet(PurchaseKey(sub[s].usr), PurchaseTTL)
                      ELSE cache
    /\ UNCHANGED <<reg, maint, maintSince, notModal>>

\* cache_manager.set(rate_limit_key, True, expires_in=300) returns: on success the
\* loop is left and the input validated; on an exception retry_count grows and
\* asyncio.sleep(1) is awaited.
SubRateSet(s, texts) ==
    /\ sub[s].pc = "rl_set"
    /\ \/ /\ cache' = CacheSet(PurchaseKey(sub[s].usr), PurchaseTTL)
          /\ \E t \in texts : SetSub(s, Validated(sub[s], t))
       \/ /\ cache' = cache
          /\ SetSub(s, [sub[s] EXCEPT !.pc = "rl_sleep", !.retry = @ + 1])
       \/ /\ cache' = cache
          /\ SetSub(s, SubHung(sub[s]))
    /\ UNCHANGED <<reg, maint, maintSince, notModal>>

\* asyncio.sleep(1) of the rate-limit retry loop returns: `while retry_count < 3`.
SubRateSleep(s, texts) ==
    /\ sub[s].pc = "rl_sleep"
    /\ IF sub[s].retry < 3
       THEN SetSub(s, [sub[s] EXCEPT !.pc = "rl_set"])
       ELSE \E t \in texts : SetSub(s, Validated([sub[s] EXCEPT !.retry = 0], t))
    /\ UNCHANGED <<reg, maint, maintSince, cache, notModal>>

\* The routing with the threshold one lower.
Routed_AtTen(rec) ==
    IF rec.qty >= 10
    THEN [rec EXCEPT !.pc = "enqueue", !.queued = @ + 1]
    ELSE [rec EXCEPT !.pc = "purchase", !.bought = @ + 1]

\* Lines 142-166: the routing on the quantity once the alias is known.
Routed(rec) ==
    IF rec.qty > 10
    THEN [rec EXCEPT !.pc = "enqueue", !.queued = @ + 1]
    ELSE [rec EXCEPT !.pc = "purchase", !.bought = @ + 1]

\* get_growid inside asyncio.timeout(10).
SubGrowid(s) ==
    /\ sub[s].pc = "growid"
    /\ \E o \in {"ok", "fail", "raise", "hang"} :
          SetSub(s, CASE o = "ok"    -> Routed(sub[s])
                      [] o = "fail"  -> SubRaised(sub[s], "BACKEND_ERROR")
                      [] o = "raise" -> SubCrashed(sub[s])
                      [] o = "hang"  -> SubRaised(sub[s], "TIMEOUT"))
    /\ UNCHANGED <<reg, maint, maintSince, cache, notModal>>

\* transaction_queue.add_transaction(...) returns; no timeout.  The
\* acknowledgement is then sent.
SubEnqueue(s) ==
    /\ sub[s].pc = "enqueue"
    /\ \E o \in {"ok", "raise", "hang"} :
          SetSub(s, CASE o = "ok"    -> [sub[s] EXCEPT !.pc = "send", !.msg = "processing"]
                      [] o = "raise" -> SubCrashed(sub[s])
                      [] o = "hang"  -> SubHung(sub[s]))
    /\ UNCHANGED <<reg, maint, maintSince, cache, notModal>>

\* A purchase that runs into its timeout is issued again.
SubPurchase_RetryOnTimeout(s) ==
    /\ sub[s].pc = "purchase"
    /\ \E o \in {"ok", "hang"} :
          SetSub(s, CASE o = "ok" -> [sub[s] EXCEPT !.pc = "inval", !.hasResp = TRUE,
                                                    !.key = 1, !.retry = 0]
                      [] o = "hang" ->
                          IF sub[s].bought < 2
                          THEN [sub[s] EXCEPT !.bought = @ + 1]
                          ELSE SubRaised(sub[s], "TRANSACTION_TIMEOUT"))
    /\ UNCHANGED <<reg, maint, maintSince, cache, notModal>>

\* process_purchase inside asyncio.timeout(30).  "malformed" is a successful
\* response whose data makes the building of the embed raise.
SubPurchase(s) ==
    /\ sub[s].pc = "purchase"
    /\ \E o \in {"ok", "malformed", "fail", "raise", "hang"} :
          SetSub(s, CASE o = "ok" -> [sub[s] EXCEPT !.pc = "inval", !.hasResp = TRUE,
                                                    !.key = 1, !.retry = 0]
                      [] o = "malformed" -> SubCrashed([sub[s] EXCEPT !.hasResp = TRUE])
                      [] o = "fail" ->
                          SubRaised([sub[s] EXCEPT !.hasResp = TRUE], "BACKEND_ERROR")
                      [] o = "raise" -> SubCrashed(sub[s])
                      [] o = "hang"  -> SubRaised(sub[s], "TRANSACTION_TIMEOUT"))
    /\ UNCHANGED <<reg, maint, maintSince, cache, notModal>>

\* A fourth key is invalidated.
NextKey_FourKeys(rec) ==
    IF rec.key < 4
    THEN [rec EXCEPT !.pc = "inval", !.key = @ + 1, !.retry = 0]
    ELSE [rec EXCEPT !.pc = "send", !.msg = "result", !.key = 0, !.retry = 0]

\* Lines 217-229: the next cache key, or the success embed once the three keys
\* (balance, stock, history) are through.
NextKey(rec) ==
    IF rec.key < 3
    THEN [rec EXCEPT !.pc = "inval", !.key = @ + 1, !.retry = 0]
    ELSE [rec EXCEPT !.pc = "send", !.msg = "result", !.key = 0, !.retry = 0]

\* cache_manager.delete(key) returns; no timeout.
SubInvalidate(s) ==
    /\ sub[s].pc = "inval"
    /\ \E o \in {"ok", "raise", "hang"} :
          LET rec == [sub[s] EXCEPT !.tried = Append(@, <<sub[s].key, o>>)]
          IN  SetSub(s, CASE o = "ok"    -> NextKey(rec)
                          [] o = "raise" -> [rec EXCEPT !.pc = "inval_sleep",
                                                        !.retry = @ + 1]
                          [] o = "hang"  -> SubHung(rec))
    /\ UNCHANGED <<reg, maint, maintSince, cache, notModal>>

\* asyncio.sleep(1) of the invalidation retry loop returns.
SubInvalSleep(s) ==
    /\ sub[s].pc = "inval_sleep"
    /\ SetSub(s, IF sub[s].retry < 3 THEN [sub[s] EXCEPT !.pc = "inval"]
                 ELSE NextKey(sub[s]))
    /\ UNCHANGED <<reg, maint, maintSince, cache, notModal>>

\* recover_failed_transaction inside asyncio.timeout(10): whatever its outcome,
\* the failure message is sent next.
SubRecover(s) ==
    /\ sub[s].pc = "recover"
    /\ \E o \in {"ok", "raise", "hang"} : SetSub(s, [sub[s] EXCEPT !.pc = "err"])
    /\ UNCHANGED <<reg, maint, maintSince, cache, notModal>>

\* A send to the interaction: followup.send needs an initial response (or a
\* defer) to exist, response.send_message needs none to exist.
SendWorks(viaFollowup, isDone) == viaFollowup = isDone

\* The pending message is sent: followup.send when response_sent, else
\* response.send_message (lines 156, 229, 238-241, 263-266); on_submit returns.
SubSend(s) ==
    /\ sub[s].pc \in {"send", "err"}
    /\ SetSub(s, IF SendWorks(sub[s].rsent, sub[s].isDone)
                 THEN [sub[s] EXCEPT !.pc = "done", !.sent = @ + 1, !.isDone = TRUE]
                 ELSE [sub[s] EXCEPT !.pc = "done", !.msg = "escaped"])
    /\ UNCHANGED <<reg, maint, maintSince, cache, notModal>>

(***************************************************************************)
(* RegisterModal.on_submit.                                                *)
(*   existing the modal's existing_growid is set                           *)
(*   lookup   the get_growid answer the modal was built after              *)
(*   title    the title of the success embed                               *)
(*   alias    the alias field as typed                                     *)
(*   growid   the local growid, the alias handed to register_user          *)
(*   calls    register_user calls issued                                   *)
(*   resp     how register_user answered ("none": not yet)                 *)
(***************************************************************************)
IdleReg ==
    [pc |-> "idle", usr |-> "none", isDone |-> FALSE, sent |-> 0, msg |-> "none",
     alias |-> NoText, growid |-> NoText, calls |-> 0,
     existing |-> FALSE, lookup |-> "none", title |-> "none", resp |-> "none"]

\* The RegisterModal objects register_callback can build.
AnyModal == {[existing |-> ExistingGrowid(o), lookup |-> o] : o \in Lookups}

\* The RegisterModal objects on the user's screen: those of the presses answered
\* with send_modal.
ShownModals ==
    {[existing |-> req[r].existing, lookup |-> req[r].lookup] :
        r \in {x \in Req : req[x].act = "register" /\ req[x].pc = "done"
                              /\ req[x].msg = "modal"}}

\* The two titles exchanged.
SuccessTitle_Swapped(e) == IF e THEN "registered" ELSE "updated"

\* Line 329: "Diperbarui" (updated) if self.existing_growid else "Didaftarkan"
\* (registered).
SuccessTitle(e) == IF e THEN "updated" ELSE "registered"

SetReg(s, rec) == reg' = [reg EXCEPT ![s] = rec]

RegRaised(rec, m) == [rec EXCEPT !.pc = "err", !.msg = m]

\* One of the modals is submitted: on_submit starts and awaits defer inside
\* asyncio.timeout(5).
RegSubmit(s, modals) ==
    /\ reg[s].pc \in {"idle", "done"}
    /\ \E u \in Users, m \in modals :
          SetReg(s, [IdleReg EXCEPT !.pc = "defer", !.usr = u,
                                    !.existing = m.existing, !.lookup = m.lookup])
    /\ UNCHANGED <<sub, maint, maintSince, cache, notModal>>

\* defer returns, raises or runs into the timeout; after a defer the alias is
\* validated and register_user awaited.
RegDefer(s, texts) ==
    /\ reg[s].pc = "defer"
    /\ \/ \E t \in texts :
             SetReg(s, IF AliasValid(t)
                       THEN [reg[s] EXCEPT !.pc = "register", !.isDone = TRUE,
                                           !.alias = t, !.growid = Strip(t),
                                           !.calls = @ + 1]
                       ELSE [RegRaised(reg[s], "INVALID_GROWID_FORMAT") EXCEPT
                                           !.isDone = TRUE, !.alias = t])
       \/ SetReg(s, RegRaised(reg[s], "REGISTRATION_FAILED"))
       \/ SetReg(s, RegRaised(reg[s], "TIMEOUT"))
    /\ UNCHANGED <<sub, maint, maintSince, cache, notModal>>

\* The 'lock busy' failure is raised like every other failure.
RegRegister_BusyAsError(s) ==
    /\ reg[s].pc = "register"
    /\ \E o \in {"busy", "fail"} :
          SetReg(s, RegRaised([reg[s] EXCEPT !.resp = o], "BACKEND_ERROR"))
    /\ UNCHANGED <<sub, maint, maintSince, cache, notModal>>

\* register_user inside asyncio.timeout(20).  "busy" is a failure whose error is
\* MESSAGES.ERROR['LOCK_ACQUISITION_FAILED'].
RegRegister(s) ==
    /\ reg[s].pc = "register"
    /\ \E o \in {"ok", "busy", "fail", "raise", "hang"} :
          LET rec == [reg[s] EXCEPT !.resp = o]
          IN  SetReg(s, CASE o = "ok"    -> [rec EXCEPT !.pc = "send", !.msg = "result",
                                                       !.title = SuccessTitle(rec.existing)]
                          [] o = "busy"  -> [rec EXCEPT !.pc = "send", !.msg = "please_wait"]
                          [] o = "fail"  -> RegRaised(rec, "BACKEND_ERROR")
                          [] o = "raise" -> RegRaised(rec, "REGISTRATION_FAILED")
                          [] o = "hang"  -> RegRaised(rec, "REGISTRATION_TIMEOUT"))
    /\ UNCHANGED <<sub, maint, maintSince, cache, notModal>>

\* The pending message is sent with interaction.followup.send on every path
\* (lines 315, 346, 355, 366); on_submit returns, or the exception of a refused
\* send leaves it.
RegSend(s) ==
    /\ reg[s].pc \in {"send", "err"}
    /\ SetReg(s, IF SendWorks(TRUE, reg[s].isDone)
                 THEN [reg[s] EXCEPT !.pc = "done", !.sent = @ + 1]
                 ELSE [reg[s] EXCEPT !.pc = "done", !.msg = "escaped"])
    /\ UNCHANGED <<sub, maint, maintSince, cache, notModal>>

(***************************************************************************)
(* LiveButtonManager.                                                      *)
(*                                                                         *)
(* self._lock is created by BaseLockHandler (ext/base_handler.py); it is   *)
(* entered with `async with`, as the asyncio.Lock objects this file        *)
(* creates itself are: the holder is one task, and acquire waits while the *)
(* lock is held, also when the waiting task is the holder.                 *)
(*                                                                         *)
(* A task record:                                                          *)
(*   op      the method called: "gocm" get_or_create_message, "fu"         *)
(*           force_update, "ssm" set_stock_manager, "init" initialize,     *)
(*           "refresh" refresh_components, "cleanup", "health" check_health*)
(*   inFu    the task is inside force_update's asyncio.timeout(30)         *)
(*   retMsg  the local existing_message of get_or_create_message           *)
(*   retOk   "true"/"false" returned by force_update, initialize or        *)
(*           refresh_components, "raised" when the method raised,          *)
(*           "returned" for cleanup, the status given by check_health      *)
(*   n       setup attempts of this call of initialize; in cleanup the     *)
(*           index of the cache pattern being deleted                      *)
(*   wasReady  refresh_components was called with the ready event set      *)
(*   repeat  this cleanup was called right after a cleanup that returned,  *)
(*           as teardown calls it after cog_unload (lines 1303, 1355)      *)
(***************************************************************************)
MaxMsgs == 2
MaxAttempts == 5
max_initialization_retries == 3
NoMsg == 0

Tasks == {"t1", "t2"}
MsgIds == 1..MaxMsgs

IdleTask ==
    [op |-> "none", pc |-> "idle", inFu |-> FALSE,
     retMsg |-> NoMsg, retOk |-> "none", n |-> 0, wasReady |-> FALSE,
     repeat |-> FALSE]

NoMessage == [alive |-> FALSE, body |-> "none", view |-> "none"]

SetTask(t, rec) == task' = [task EXCEPT ![t] = rec]

\* bot.get_channel(self.stock_channel_id) gives a channel.
ChannelFound == world.channel

\* message.edit(...) on a message that is gone raises discord.NotFound.
Alive(m) == m # NoMsg /\ chan[m].alive

\* The outcomes of message.edit: done, discord.NotFound, another exception, or no
\* return.
EditOutcomes(m) == IF Alive(m) THEN {"ok", "raise", "hang"} ELSE {"notfound"}

Edited(m, body, view) == [chan EXCEPT ![m] = [@ EXCEPT !.body = body, !.view = view]]

\* The record of get_or_create_message's returns: the handle returned last, and
\* how it relates to the return before it: "first" after no handle, "same" for
\* that handle again without a new message, else "other".
Logged(v, made) ==
    [last |-> v,
     again |-> IF hist.last = NoMsg THEN "first"
               ELSE IF v = hist.last /\ ~made THEN "same" ELSE "other"]

Disturb(o) == disturbed' = (disturbed \/ o \in {"raise", "hang", "fail", "notfound", "timeout"})

(***************************************************************************)
(* get_or_create_message.                                                  *)
(***************************************************************************)
StartGocm(t) ==
    /\ task[t].pc \in {"idle", "done"}
    /\ SetTask(t, [IdleTask EXCEPT !.op = "gocm", !.pc = "g_lock"])
    /\ UNCHANGED <<current_message, stock_manager, ready, retries, mlock, provMsg,
                   chan, nextId, nCreated, hist, disturbed, world,
                   maint, maintSince, notMgr>>

\* get_or_create_message returns v: `async with self._lock` is left.  Called from
\* force_update, the value is assigned to self.current_message and force_update
\* goes on (lines 1091-1099).
GocmReturn(t, v, cm) ==
    /\ mlock' = "free"
    /\ IF task[t].inFu
       THEN /\ current_message' = v
            /\ hist' = hist
            /\ IF v = NoMsg
               THEN /\ SetTask(t, [task[t] EXCEPT !.pc = "done", !.retOk = "false",
                                                  !.inFu = FALSE, !.retMsg = NoMsg])
                    /\ ready' = (ready \/ task[t].op = "ssm")
               ELSE /\ SetTask(t, [task[t] EXCEPT !.pc = "f_maint", !.retMsg = NoMsg])
                    /\ ready' = ready
       ELSE /\ current_message' = cm
            /\ hist' = Logged(v, FALSE)
            /\ SetTask(t, [task[t] EXCEPT !.pc = "done", !.retMsg = NoMsg])
            /\ ready' = ready

\* Lines 1053-1067: the create path up to its first await: create_stock_embed
\* with a provider, channel.send without one.
CreatePath(rec) == [rec EXCEPT !.pc = IF stock_manager THEN "g_embed_new" ELSE "g_send"]

\* Lines 1033-1037: find_last_message with a provider, else the create path.
FindPath(rec) == IF stock_manager THEN [rec EXCEPT !.pc = "g_find"] ELSE CreatePath(rec)

\* `async with self._lock` is entered; lines 1012-1023 up to the first await.
GocmAcquire(t) ==
    /\ task[t].pc = "g_lock"
    /\ mlock = "free"
    /\ IF ~ChannelFound
       THEN /\ GocmReturn(t, NoMsg, current_message)
            /\ UNCHANGED <<stock_manager, retries, provMsg, chan, nextId, nCreated,
                           disturbed, world, maint, maintSince, notMgr>>
       ELSE /\ mlock' = t
            /\ IF stock_manager /\ provMsg # NoMsg
               THEN /\ current_message' = provMsg
                    /\ SetTask(t, [task[t] EXCEPT !.pc = "g_edit"])
               ELSE /\ current_message' = current_message
                    /\ SetTask(t, FindPath(task[t]))
            /\ UNCHANGED <<stock_manager, ready, retries, provMsg, chan, nextId,
                           nCreated, hist, disturbed, world, maint, maintSince, notMgr>>

\* Lines 1023-1031: self.current_message.edit(view=view) of the provider's message.
GocmEdit(t) ==
    /\ task[t].pc = "g_edit"
    /\ \E o \in EditOutcomes(current_message) :
          /\ Disturb(o)
          /\ CASE o = "ok" ->
                   /\ chan' = Edited(current_message, chan[current_message].body, "shop")
                   /\ GocmReturn(t, current_message, current_message)
               [] o \in {"notfound", "raise"} ->
                   /\ chan' = chan
                   /\ current_message' = NoMsg
                   /\ SetTask(t, FindPath(task[t]))
                   /\ UNCHANGED <<ready, mlock, hist>>
               [] o = "hang" ->
                   /\ chan' = chan
                   /\ SetTask(t, [task[t] EXCEPT !.pc = "hung"])
                   /\ UNCHANGED <<current_message, ready, mlock, hist>>
    /\ UNCHANGED <<stock_manager, retries, provMsg, nextId, nCreated, world,
                   maint, maintSince, notMgr>>

\* Lines 1036-1043: find_last_message inside asyncio.timeout(10).  The provider
\* returns a message of the channel or None; a message found becomes the current
\* message of the manager and of the provider.
GocmFind(t) ==
    /\ task[t].pc = "g_find"
    /\ \/ \E m \in {i \in MsgIds : Alive(i)} :
             /\ current_message' = m
             /\ IF stock_manager
                THEN /\ provMsg' = m
                     /\ SetTask(t, [task[t] EXCEPT !.pc = "g_embed_found", !.retMsg = m])
                ELSE /\ provMsg' = provMsg
                     /\ SetTask(t, CreatePath(task[t]))
             /\ disturbed' = disturbed
       \/ /\ \E o \in {"none", "raise", "hang"} :
                disturbed' = (disturbed \/ o # "none" \/ \E i \in MsgIds : Alive(i))
          /\ SetTask(t, CreatePath(task[t]))
          /\ UNCHANGED <<current_message, provMsg>>
    /\ UNCHANGED <<stock_manager, ready, retries, mlock, chan, nextId, nCreated,
                   hist, world, maint, maintSince, notMgr>>

\* Lines 1043-1051: create_stock_embed, then existing_message.edit(embed, view),
\* still inside asyncio.timeout(10).
GocmEmbedFound(t) ==
    /\ task[t].pc = "g_embed_found"
    /\ \E o \in {"ok", "raise", "hang"} :
          /\ Disturb(o)
          /\ SetTask(t, IF o = "ok" /\ stock_manager
                        THEN [task[t] EXCEPT !.pc = "g_edit_found"]
                        ELSE CreatePath(task[t]))
    /\ UNCHANGED <<current_message, stock_manager, ready, retries, mlock, provMsg,
                   chan, nextId, nCreated, hist, world, maint, maintSince, notMgr>>

GocmEditFound(t) ==
    /\ task[t].pc = "g_edit_found"
    /\ \E o \in EditOutcomes(task[t].retMsg) :
          /\ Disturb(o)
          /\ IF o = "ok"
             THEN /\ chan' = Edited(task[t].retMsg, "stock", "shop")
                  /\ GocmReturn(t, task[t].retMsg, current_message)
             ELSE /\ chan' = chan
                  /\ SetTask(t, CreatePath(task[t]))
                  /\ UNCHANGED <<current_message, ready, mlock, hist>>
    /\ UNCHANGED <<stock_manager, retries, provMsg, nextId, nCreated, world,
                   maint, maintSince, notMgr>>

\* Lines 1056-1057, 1075-1077: create_stock_embed of the create path; its
\* exception makes get_or_create_message return None.
GocmEmbedNew(t) ==
    /\ task[t].pc = "g_embed_new"
    /\ \E o \in {"ok", "raise", "hang"} :
          /\ Disturb(o)
          /\ CASE o = "ok" ->
                   /\ SetTask(t, [task[t] EXCEPT !.pc = "g_send"])
                   /\ UNCHANGED <<current_message, ready, mlock, hist>>
               [] o = "raise" -> GocmReturn(t, NoMsg, current_message)
               [] o = "hang" ->
                   /\ SetTask(t, [task[t] EXCEPT !.pc = "hung"])
                   /\ UNCHANGED <<current_message, ready, mlock, hist>>
    /\ UNCHANGED <<stock_manager, retries, provMsg, chan, nextId, nCreated, world,
                   maint, maintSince, notMgr>>

\* Lines 1066-1077: channel.send(embed, view) returns the new message, which
\* becomes the current message of the manager and of an attached provider.
GocmSend(t) ==
    /\ task[t].pc = "g_send"
    /\ \/ /\ nextId <= MaxMsgs
          /\ chan' = [chan EXCEPT ![nextId] =
                        [alive |-> TRUE, view |-> "shop",
                         body |-> IF stock_manager THEN "stock" ELSE "init"]]
          /\ nextId' = nextId + 1
          /\ nCreated' = nCreated + 1
          /\ provMsg' = IF stock_manager THEN nextId ELSE provMsg
          /\ disturbed' = disturbed
          /\ mlock' = "free"
          /\ IF task[t].inFu
             THEN /\ current_message' = nextId
                  /\ hist' = hist
                  /\ SetTask(t, [task[t] EXCEPT !.pc = "f_maint", !.retMsg = NoMsg])
             ELSE /\ current_message' = nextId
                  /\ hist' = Logged(nextId, TRUE)
                  /\ SetTask(t, [task[t] EXCEPT !.pc = "done", !.retMsg = NoMsg])
          /\ ready' = ready
       \/ /\ disturbed' = TRUE
          /\ GocmReturn(t, NoMsg, current_message)
          /\ UNCHANGED <<chan, nextId, nCreated, provMsg>>
       \/ /\ disturbed' = TRUE
          /\ SetTask(t, [task[t] EXCEPT !.pc = "hung"])
          /\ UNCHANGED <<current_message, ready, mlock, hist, chan, nextId, nCreated,
                         provMsg>>
    /\ UNCHANGED <<stock_manager, retries, world, maint, maintSince, notMgr>>

(***************************************************************************)
(* force_update and set_stock_manager.                                     *)
(***************************************************************************)
StartFu(t) ==
    /\ task[t].pc \in {"idle", "done"}
    /\ SetTask(t, [IdleTask EXCEPT !.op = "fu", !.pc = "f_lock", !.inFu = TRUE])
    /\ UNCHANGED <<current_message, stock_manager, ready, retries, mlock, provMsg,
                   chan, nextId, nCreated, hist, disturbed, world,
                   maint, maintSince, notMgr>>

\* set_stock_manager(stock_manager): the reference is stored; None raises
\* ValueError, a provider goes on to force_update.
StartSsm(t) ==
    /\ task[t].pc \in {"idle", "done"}
    /\ \E provider \in BOOLEAN :
          /\ stock_manager' = provider
          /\ SetTask(t, IF provider
                        THEN [IdleTask EXCEPT !.op = "ssm", !.pc = "f_lock", !.inFu = TRUE]
                        ELSE [IdleTask EXCEPT !.op = "ssm", !.pc = "done", !.retOk = "raised"])
    /\ UNCHANGED <<current_message, ready, retries, mlock, provMsg,
                   chan, nextId, nCreated, hist, disturbed, world,
                   maint, maintSince, notMgr>>

\* force_update returns b: the lock is released if held; set_stock_manager then
\* sets the ready event (line 999) whatever b is.
FuReturn(t, b) ==
    /\ mlock' = IF mlock = t THEN "free" ELSE mlock
    /\ ready' = (ready \/ task[t].op = "ssm")
    /\ SetTask(t, [task[t] EXCEPT !.pc = "done", !.retOk = b, !.inFu = FALSE])

\* Lines 1087-1099: the lock is entered; without a current message
\* get_or_create_message is called, which waits for the same lock.
FuAcquire(t) ==
    /\ task[t].pc = "f_lock"
    /\ mlock = "free"
    /\ mlock' = t
    /\ SetTask(t, [task[t] EXCEPT !.pc = IF current_message = NoMsg
                                         THEN "g_lock" ELSE "f_maint"])
    /\ UNCHANGED <<current_message, stock_manager, ready, retries, provMsg,
                   chan, nextId, nCreated, hist, disturbed, world,
                   maint, maintSince, notMgr>>

\* Lines 1098-1118: is_maintenance_mode() returns or raises.
FuMaint(t) ==
    /\ task[t].pc = "f_maint"
    /\ \E o \in {"ok", "raise"} :
          /\ Disturb(o)
          /\ IF o = "ok"
             THEN /\ SetTask(t, [task[t] EXCEPT !.pc =
                                    IF maint THEN "f_edit_maint"
                                    ELSE IF stock_manager THEN "f_update"
                                    ELSE "f_edit_view"])
                  /\ UNCHANGED <<mlock, ready>>
             ELSE FuReturn(t, "false")
    /\ UNCHANGED <<current_message, stock_manager, retries, provMsg,
                   chan, nextId, nCreated, hist, world, maint, maintSince, notMgr>>

\* Lines 1108-1112: current_message.edit(embed=maintenance, view=None); every
\* exception, discord.NotFound included, ends in `return False`.
FuEditMaint(t) ==
    /\ task[t].pc = "f_edit_maint"
    /\ \E o \in EditOutcomes(current_message) \ {"hang"} :
          /\ Disturb(o)
          /\ IF o = "ok"
             THEN /\ chan' = Edited(current_message, "maint", "none")
                  /\ FuReturn(t, "true")
             ELSE /\ chan' = chan
                  /\ FuReturn(t, "false")
    /\ UNCHANGED <<current_message, stock_manager, retries, provMsg,
                   nextId, nCreated, hist, world, maint, maintSince, notMgr>>

\* Lines 1115-1120: the provider's update_stock_display() refreshes the body of
\* its message; its exception is logged only.
FuUpdate(t) ==
    /\ task[t].pc = "f_update"
    /\ \E o \in {"ok", "raise"} :
          /\ Disturb(o)
          /\ chan' = IF o = "ok" /\ Alive(provMsg)
                     THEN Edited(provMsg, "stock", chan[provMsg].view) ELSE chan
    /\ SetTask(t, [task[t] EXCEPT !.pc = "f_edit_view"])
    /\ UNCHANGED <<current_message, stock_manager, ready, retries, mlock, provMsg,
                   nextId, nCreated, hist, world, maint, maintSince, notMgr>>

\* Lines 1123-1135: current_message.edit(view=view).
FuEditView(t) ==
    /\ task[t].pc = "f_edit_view"
    /\ \E o \in EditOutcomes(current_message) \ {"hang"} :
          /\ Disturb(o)
          /\ chan' = IF o = "ok"
                     THEN Edited(current_message, chan[current_message].body, "shop")
                     ELSE chan
          /\ current_message' = IF o = "notfound" THEN NoMsg ELSE current_message
          /\ FuReturn(t, IF o = "ok" THEN "true" ELSE "false")
    /\ UNCHANGED <<stock_manager, retries, provMsg,
                   nextId, nCreated, hist, world, maint, maintSince, notMgr>>

\* The timeout ends force_update without leaving `async with self._lock`.
FuTimeout_KeepsLock(t) ==
    /\ task[t].inFu
    /\ task[t].pc \notin {"idle", "done"}
    /\ mlock' = mlock
    /\ ready' = (ready \/ task[t].op = "ssm")
    /\ SetTask(t, [task[t] EXCEPT !.pc = "done", !.retOk = "false", !.inFu = FALSE])
    /\ disturbed' = (disturbed \/ ~(task[t].pc = "g_lock" /\ mlock = t))
    /\ UNCHANGED <<current_message, stock_manager, retries, provMsg,
                   chan, nextId, nCreated, hist, world, maint, maintSince, notMgr>>

\* asyncio.timeout(30) expires at the await force_update is suspended at (lines
\* 1086, 1137-1139): the pending await is cancelled, the lock released if held.
\* Waiting for the lock the task holds itself is no failure of any call.
FuTimeout(t) ==
    /\ task[t].inFu
    /\ task[t].pc \notin {"idle", "done"}
    /\ FuReturn(t, "false")
    /\ disturbed' = (disturbed \/ ~(task[t].pc = "g_lock" /\ mlock = t))
    /\ UNCHANGED <<current_message, stock_manager, retries, provMsg,
                   chan, nextId, nCreated, hist, world, maint, maintSince, notMgr>>

(***************************************************************************)
(* initialize, setup_dependencies, wait_for_stock_manager_ready.           *)
(***************************************************************************)
StartInit(t) ==
    /\ task[t].pc \in {"idle", "done"}
    /\ SetTask(t, [IdleTask EXCEPT !.op = "init", !.pc = "i_loop"])
    /\ UNCHANGED <<current_message, stock_manager, ready, retries, mlock, provMsg,
                   chan, nextId, nCreated, hist, disturbed, world,
                   maint, maintSince, notMgr>>

\* Lines 916-919, 936-937, 947-953: the loop condition; a setup attempt up to its
\* await, or `return False` of setup_dependencies at once (no cog), after which
\* the loop condition is evaluated again.
\* initialize returns b: to its caller, or to refresh_components (lines
\* 1229-1235), which raises on False and awaits force_update on True.
InitReturn(rec, b) ==
    IF rec.op = "refresh" /\ b = "true"
    THEN [rec EXCEPT !.pc = "f_lock", !.inFu = TRUE]
    ELSE [rec EXCEPT !.pc = "done", !.retOk = b]

\* Lines 1265-1271: initialize has returned b to initialize_dependencies, which
\* sets the cog's ready event on True and returns b, leaving
\* `async with self._initialization_lock`; no await lies in between.
DepsReturn(t, b) ==
    IF task[t].op = "deps"
    THEN /\ cog_ready' = (cog_ready \/ b = "true")
         /\ initialization_lock' = "free"
    ELSE UNCHANGED vCog

InitAttempt(t) ==
    /\ task[t].pc = "i_loop"
    /\ IF retries < max_initialization_retries
       THEN /\ task[t].n < MaxAttempts
            /\ IF world.cog
               THEN /\ stock_manager' = TRUE
                    /\ SetTask(t, [task[t] EXCEPT !.pc = "i_ready", !.n = @ + 1])
               ELSE /\ stock_manager' = stock_manager
                    /\ SetTask(t, [task[t] EXCEPT !.n = @ + 1])
            /\ UNCHANGED vCog
       ELSE /\ stock_manager' = stock_manager
            /\ SetTask(t, InitReturn(task[t], "false"))
            /\ DepsReturn(t, "false")
    /\ UNCHANGED <<current_message, ready, retries, mlock, provMsg,
                   chan, nextId, nCreated, hist, disturbed, world,
                   maint, maintSince, vView, vModal, cache>>

\* Lines 920-928, 956-962, 974-978: the provider's _ready.wait() inside
\* asyncio.timeout(10) inside the attempt's asyncio.timeout(20).  The wait
\* returns, then the channel decides; or the 10 s pass, setup_dependencies returns
\* False and the loop goes on with the counter unchanged; or the attempt's own
\* timeout expires, which counts a retry and sleeps 5 s before the next one.
InitWaitReady(t) ==
    /\ task[t].pc = "i_ready"
    /\ \/ /\ world.provReady
          /\ IF ChannelFound
             THEN /\ ready' = TRUE
                  /\ SetTask(t, InitReturn(task[t], "true"))
                  /\ DepsReturn(t, "true")
             ELSE /\ ready' = ready
                  /\ SetTask(t, [task[t] EXCEPT !.pc = "i_loop"])
                  /\ UNCHANGED vCog
          /\ retries' = retries
       \/ /\ ~world.provReady
          /\ SetTask(t, [task[t] EXCEPT !.pc = "i_loop"])
          /\ UNCHANGED <<ready, retries, vCog>>
       \/ /\ ~world.provReady
          /\ retries' = retries + 1
          /\ SetTask(t, [task[t] EXCEPT !.pc =
                            IF retries + 1 < max_initialization_retries
                            THEN "i_sleep" ELSE "i_loop"])
          /\ ready' = ready
          /\ UNCHANGED vCog
    /\ UNCHANGED <<current_message, stock_manager, mlock, provMsg,
                   chan, nextId, nCreated, hist, disturbed, world,
                   maint, maintSince, vView, vModal, cache>>

\* asyncio.sleep(5) between attempts returns.
InitSleep(t) ==
    /\ task[t].pc = "i_sleep"
    /\ SetTask(t, [task[t] EXCEPT !.pc = "i_loop"])
    /\ UNCHANGED <<current_message, stock_manager, ready, retries, mlock, provMsg,
                   chan, nextId, nCreated, hist, disturbed, world,
                   maint, maintSince, notMgr>>

(***************************************************************************)
(* LiveButtonsCog.initialize_dependencies, as cog_load or any other caller *)
(* awaits it.                                                              *)
(***************************************************************************)
\* initialize_dependencies is called and waits for self._initialization_lock.
StartDeps(t) ==
    /\ task[t].pc \in {"idle", "done"}
    /\ SetTask(t, [IdleTask EXCEPT !.op = "deps", !.pc = "d_lock"])
    /\ UNCHANGED <<current_message, stock_manager, ready, retries, mlock, provMsg,
                   chan, nextId, nCreated, hist, disturbed, world,
                   maint, maintSince, notMgr>>

\* The lock is entered and initialize awaited whether or not the event is set.
DepsAcquire_NoReadyCheck(t) ==
    /\ task[t].pc = "d_lock"
    /\ initialization_lock = "free"
    /\ initialization_lock' = t
    /\ cog_ready' = cog_ready
    /\ SetTask(t, [task[t] EXCEPT !.pc = "i_loop"])
    /\ UNCHANGED <<current_message, stock_manager, ready, retries, mlock, provMsg,
                   chan, nextId, nCreated, hist, disturbed, world,
                   maint, maintSince, vView, vModal, cache>>

\* Lines 1257-1265: the lock is entered; with the event set the call returns
\* True at once and the lock is left, else button_manager.initialize() is awaited.
DepsAcquire(t) ==
    /\ task[t].pc = "d_lock"
    /\ initialization_lock = "free"
    /\ IF cog_ready
       THEN /\ initialization_lock' = "free"
            /\ SetTask(t, [task[t] EXCEPT !.pc = "done", !.retOk = "true"])
       ELSE /\ initialization_lock' = t
            /\ SetTask(t, [task[t] EXCEPT !.pc = "i_loop"])
    /\ cog_ready' = cog_ready
    /\ UNCHANGED <<current_message, stock_manager, ready, retries, mlock, provMsg,
                   chan, nextId, nCreated, hist, disturbed, world,
                   maint, maintSince, vView, vModal, cache>>

\* cog_load's asyncio.timeout(60) (lines 1283-1291) expires at the await the
\* call is suspended at: the call is cancelled, the lock left if it was entered,
\* and cog_load raises RuntimeError.
DepsTimeout(t) ==
    /\ task[t].op = "deps"
    /\ \/ task[t].pc \in {"i_ready", "i_sleep"}
       \/ task[t].pc = "d_lock" /\ initialization_lock # "free"
    /\ initialization_lock' = IF initialization_lock = t THEN "free"
                              ELSE initialization_lock
    /\ cog_ready' = cog_ready
    /\ disturbed' = TRUE
    /\ SetTask(t, [task[t] EXCEPT !.pc = "done", !.retOk = "raised"])
    /\ UNCHANGED <<current_message, stock_manager, ready, retries, mlock, provMsg,
                   chan, nextId, nCreated, hist, world,
                   maint, maintSince, vView, vModal, cache>>

(***************************************************************************)
(* refresh_components, cleanup, check_health.                              *)
(***************************************************************************)
\* Lines 1220-1229: the ready event is cleared and initialize awaited.
StartRefresh(t) ==
    /\ task[t].pc \in {"idle", "done"}
    /\ ready' = FALSE
    /\ SetTask(t, [IdleTask EXCEPT !.op = "refresh", !.pc = "i_loop",
                                   !.wasReady = ready])
    /\ UNCHANGED <<current_message, stock_manager, retries, mlock, provMsg,
                   chan, nextId, nCreated, hist, disturbed, world,
                   maint, maintSince, notMgr>>

\* Lines 1144-1150: cleanup awaits super().cleanup() (ext/base_handler.py).
StartCleanup(t) ==
    /\ task[t].pc \in {"idle", "done"}
    /\ SetTask(t, [IdleTask EXCEPT !.op = "cleanup", !.pc = "c_base",
                                   !.repeat = /\ task[t].op = "cleanup"
                                              /\ task[t].pc = "done"
                                              /\ task[t].retOk = "returned"])
    /\ UNCHANGED <<current_message, stock_manager, ready, retries, mlock, provMsg,
                   chan, nextId, nCreated, hist, disturbed, world,
                   maint, maintSince, notMgr>>

\* The cache patterns cleanup deletes (lines 1169-1175).
NumPatterns == 5

\* The maintenance edit is awaited whether or not a message is held, on the
\* message last returned by get_or_create_message when none is.
CleanupBase_EditsLast(t) ==
    /\ task[t].pc = "c_base"
    /\ \E o \in {"ok", "raise", "hang"} :
          /\ Disturb(o)
          /\ SetTask(t, CASE o = "ok" ->
                             IF current_message # NoMsg \/ hist.last # NoMsg
                             THEN [task[t] EXCEPT !.pc = "c_edit", !.retMsg =
                                      IF current_message # NoMsg THEN current_message
                                      ELSE hist.last]
                             ELSE [task[t] EXCEPT !.pc = "c_cache", !.n = 1]
                         [] o = "raise" -> [task[t] EXCEPT !.pc = "done", !.retOk = "raised"]
                         [] o = "hang"  -> [task[t] EXCEPT !.pc = "hung"])
    /\ UNCHANGED <<current_message, stock_manager, ready, retries, mlock, provMsg,
                   chan, nextId, nCreated, hist, world, maint, maintSince, notMgr>>

\* super().cleanup() returns or raises.  Its exception is caught by the outer
\* `except Exception` only (lines 1191-1193), which raises it again.  After it the
\* maintenance edit is awaited when a message is held (lines 1153-1161), else
\* the first delete_pattern.
CleanupBase(t) ==
    /\ task[t].pc = "c_base"
    /\ \E o \in {"ok", "raise", "hang"} :
          /\ Disturb(o)
          /\ SetTask(t, CASE o = "ok" ->
                             IF current_message # NoMsg
                             THEN [task[t] EXCEPT !.pc = "c_edit", !.retMsg = current_message]
                             ELSE [task[t] EXCEPT !.pc = "c_cache", !.n = 1]
                         [] o = "raise" -> [task[t] EXCEPT !.pc = "done", !.retOk = "raised"]
                         [] o = "hang"  -> [task[t] EXCEPT !.pc = "hung"])
    /\ UNCHANGED <<current_message, stock_manager, ready, retries, mlock, provMsg,
                   chan, nextId, nCreated, hist, world, maint, maintSince, notMgr>>

\* Lines 1154-1166: current_message.edit(embed=maintenance, view=None); NotFound
\* and every other exception are logged.  No timeout.
CleanupEdit(t) ==
    /\ task[t].pc = "c_edit"
    /\ \E o \in EditOutcomes(task[t].retMsg) :
          /\ Disturb(o)
          /\ chan' = IF o = "ok" THEN Edited(task[t].retMsg, "maint", "none") ELSE chan
          /\ SetTask(t, IF o = "hang"
                        THEN [task[t] EXCEPT !.pc = "hung"]
                        ELSE [task[t] EXCEPT !.pc = "c_cache", !.n = 1, !.retMsg = NoMsg])
    /\ UNCHANGED <<current_message, stock_manager, ready, retries, mlock, provMsg,
                   nextId, nCreated, hist, world, maint, maintSince, notMgr>>

\* The reset of cleanup also sets initialization_retries back to 0.
CleanupCache_ResetRetries(t) ==
    /\ task[t].pc = "c_cache"
    /\ \E o \in {"ok", "raise"} :
          /\ Disturb(o)
          /\ IF task[t].n < NumPatterns
             THEN /\ SetTask(t, [task[t] EXCEPT !.n = @ + 1])
                  /\ UNCHANGED <<ready, current_message, stock_manager, retries>>
             ELSE /\ SetTask(t, [task[t] EXCEPT !.pc = "done", !.retOk = "returned",
                                                !.n = 0])
                  /\ ready' = FALSE
                  /\ current_message' = NoMsg
                  /\ stock_manager' = FALSE
                  /\ retries' = 0
    /\ UNCHANGED <<mlock, provMsg, chan, nextId, nCreated, hist, world,
                   maint, maintSince, notMgr>>

\* Lines 1177-1189: delete_pattern of the next pattern returns or raises (logged);
\* after the last one the internal state is reset and cleanup returns.
CleanupCache(t) ==
    /\ task[t].pc = "c_cache"
    /\ \E o \in {"ok", "raise", "hang"} :
          /\ Disturb(o)
          /\ IF o = "hang"
             THEN /\ SetTask(t, [task[t] EXCEPT !.pc = "hung"])
                  /\ UNCHANGED <<ready, current_message, stock_manager>>
             ELSE IF task[t].n < NumPatterns
             THEN /\ SetTask(t, [task[t] EXCEPT !.n = @ + 1])
                  /\ UNCHANGED <<ready, current_message, stock_manager>>
             ELSE /\ SetTask(t, [task[t] EXCEPT !.pc = "done", !.retOk = "returned",
                                                !.n = 0])
                  /\ ready' = FALSE
                  /\ current_message' = NoMsg
                  /\ stock_manager' = FALSE
    /\ UNCHANGED <<retries, mlock, provMsg, chan, nextId, nCreated, hist, world,
                   maint, maintSince, notMgr>>

\* The status with the channel left out of the conjunction.
HealthStatus_NoChannel ==
    IF ready /\ current_message # NoMsg /\ stock_manager
    THEN "healthy" ELSE "degraded"

\* Lines 1198-1208: the status check_health computes.
HealthStatus ==
    IF ready /\ current_message # NoMsg /\ stock_manager /\ ChannelFound
    THEN "healthy" ELSE "degraded"

\* check_health: no await, the status dict is returned.
CheckHealth(t) ==
    /\ task[t].pc \in {"idle", "done"}
    /\ SetTask(t, [IdleTask EXCEPT !.op = "health", !.pc = "done", !.retOk = HealthStatus])
    /\ UNCHANGED <<current_message, stock_manager, ready, retries, mlock, provMsg,
                   chan, nextId, nCreated, hist, disturbed, world,
                   maint, maintSince, notMgr>>

(***************************************************************************)
(* The environment of the manager.                                         *)
(***************************************************************************)
\* A message of the channel is deleted on the platform.
DeleteMessage ==
    /\ \E m \in MsgIds :
          /\ chan[m].alive
          /\ chan' = [chan EXCEPT ![m] = NoMessage]
    /\ disturbed' = TRUE
    /\ UNCHANGED <<task, current_message, stock_manager, ready, retries, mlock,
                   provMsg, nextId, nCreated, hist, world, maint, maintSince, notMgr>>

\* The LiveStockCog is loaded, its stock manager gets ready, the channel appears.
WorldChange ==
    /\ \E f \in {"cog", "provReady", "channel"} :
          /\ ~world[f]
          /\ world' = [world EXCEPT ![f] = TRUE]
    /\ UNCHANGED <<task, current_message, stock_manager, ready, retries, mlock,
                   provMsg, chan, nextId, nCreated, hist, disturbed,
                   maint, maintSince, notMgr>>

(***************************************************************************)
(* The environment of the handlers.                                        *)
(***************************************************************************)
\* An administrator switches maintenance mode.
ToggleMaintenance ==
    /\ maint' = ~maint
    /\ maintSince' = FALSE
    /\ UNCHANGED <<req, rlocks, keyByAction, cache, notView>>

\* Time passes until the TTL of a rate-limit key has elapsed.
Expire ==
    /\ \E k \in CacheKeys :
          /\ CacheHit(k)
          /\ cache' = Elapsed(cache[k].ttl - cache[k].age)
    /\ UNCHANGED <<req, rlocks, keyByAction, maint, maintSince, notView>>

\* The ages at which the simulated clock stops: the last time unit before each
\* TTL in use and the TTL itself.
Instants == {59, 60, 299, 300}

\* Time passes up to the last time unit before the TTL of a rate-limit key has
\* elapsed, or up to the moment it has; every flag is then at one of Instants or
\* has expired.
Tick ==
    /\ \E k \in CacheKeys :
          /\ CacheHit(k)
          /\ \E d \in {cache[k].ttl - cache[k].age - 1, cache[k].ttl - cache[k].age} :
                /\ d > 0
                /\ cache' = Elapsed(d)
                /\ \A j \in CacheKeys :
                      cache'[j].age \in Instants \cup {cache'[j].ttl}
    /\ UNCHANGED <<req, rlocks, keyByAction, maint, maintSince, notView>>

(***************************************************************************)
(* Specifications.  Each one runs one component from the state after its   *)
(* construction; the other components stay as constructed.                 *)
(***************************************************************************)
QuietView == req = [r \in Req |-> IdleReq] /\ rlocks = {} /\ keyByAction = FALSE
QuietModal == sub = [s \in Sub |-> IdleSub] /\ reg = [s \in Sub |-> IdleReg]
QuietEnv == maint = FALSE /\ maintSince = FALSE /\ cache = [k \in CacheKeys |-> NoEntry]
\* LiveButtonsCog.__init__ (lines 1245-1252): a new Event and a new Lock.
QuietCog == cog_ready = FALSE /\ initialization_lock = "free"

QuietMgr ==
    /\ QuietCog
    /\ task = [t \in Tasks |-> IdleTask]
    /\ current_message = NoMsg
    /\ stock_manager = FALSE
    /\ ready = FALSE
    /\ retries = 0
    /\ mlock = "free"
    /\ provMsg = NoMsg
    /\ chan = [m \in MsgIds |-> NoMessage]
    /\ nextId = 1
    /\ nCreated = 0
    /\ hist = [last |-> NoMsg, again |-> "first"]
    /\ disturbed = FALSE
    /\ world = [cog |-> TRUE, provReady |-> TRUE, channel |-> TRUE]

\* The five button handlers of ShopView.
InitView ==
    /\ req = [r \in Req |-> IdleReq]
    /\ rlocks = {}
    /\ keyByAction \in BOOLEAN
    /\ maint \in BOOLEAN
    /\ maintSince = maint
    /\ cache = [k \in CacheKeys |-> NoEntry]
    /\ QuietModal
    /\ QuietMgr

NextView ==
    \/ \E r \in Req :
          \/ Press(r) \/ CooldownSend(r) \/ ErrSend(r) \/ Maint(r) \/ Defer(r)
          \/ Respond(r) \/ RateGet(r) \/ Blacklist(r) \/ RegisterGrowid(r)
          \/ BuyGrowid(r) \/ BuyProducts(r) \/ BuyStock(r) \/ RateSet(r)
          \/ BalanceGrowid(r) \/ BalanceGet(r) \/ BalanceHistory(r)
          \/ BalanceDaily(r) \/ WorldInfo(r) \/ HistoryGrowid(r) \/ HistoryGet(r)
    \/ ToggleMaintenance
    \/ Expire

SpecView == InitView /\ [][NextView]_vars

\* PurchaseModal.on_submit on every quantity text of up to MaxQtyLen characters.
InitQty == QuietView /\ QuietModal /\ QuietEnv /\ QuietMgr

NextQty ==
    \/ Submit("s1") \/ SubRateGet("s1") \/ SubDefer("s1")
    \/ SubRateSet("s1", AllQtyTexts) \/ SubRateSleep("s1", AllQtyTexts)
    \/ SubGrowid("s1") \/ SubEnqueue("s1") \/ SubPurchase("s1")
    \/ SubInvalidate("s1") \/ SubInvalSleep("s1") \/ SubRecover("s1")
    \/ SubSend("s1")
    \/ Expire

SpecQty == InitQty /\ [][NextQty]_vars

\* Two submissions of PurchaseModal by the same user in flight at once, of one
\* item or of eleven.
PairQty == {<<"1">>, <<"1", "1">>}

NextPair ==
    \E s \in Sub :
        \/ Submit(s) \/ SubRateGet(s) \/ SubDefer(s)
        \/ SubRateSet(s, PairQty) \/ SubRateSleep(s, PairQty)
        \/ SubGrowid(s) \/ SubEnqueue(s) \/ SubPurchase(s)
        \/ SubInvalidate(s) \/ SubInvalSleep(s) \/ SubRecover(s)
        \/ SubSend(s)

SpecPair == InitQty /\ [][NextPair]_vars

\* The rate-limited actions (register button, buy button, purchase submission)
\* of one user on a simulated clock.  The submission sets its flag before it
\* reads the quantity field; it is run with a quantity that is turned down.
ZeroQty == {<<"0">>}

InitRate == QuietView /\ QuietModal /\ QuietEnv /\ QuietMgr

NextRate ==
    \/ Press("r1") \/ ErrSend("r1") \/ Maint("r1") \/ Defer("r1")
    \/ Respond("r1") \/ RateGet("r1") \/ Blacklist("r1") \/ RegisterGrowid("r1")
    \/ BuyGrowid("r1") \/ BuyProducts("r1") \/ BuyStock("r1") \/ RateSet("r1")
    \/ BalanceGrowid("r1") \/ BalanceGet("r1") \/ BalanceHistory("r1")
    \/ BalanceDaily("r1") \/ WorldInfo("r1") \/ HistoryGrowid("r1") \/ HistoryGet("r1")
    \/ Submit("s1") \/ SubRateGet("s1") \/ SubDefer("s1")
    \/ SubRateSet("s1", ZeroQty) \/ SubRateSleep("s1", ZeroQty)
    \/ SubSend("s1")
    \/ Tick

SpecRate == InitRate /\ [][NextRate]_vars

\* RegisterModal.on_submit on every alias text of MinAliasLen..MaxAliasLen characters.
InitRegister == QuietView /\ QuietModal /\ QuietEnv /\ QuietMgr

NextRegister ==
    \/ RegSubmit("s1", AnyModal) \/ RegDefer("s1", AllAliasTexts)
    \/ RegRegister("s1") \/ RegSend("s1")

SpecRegister == InitRegister /\ [][NextRegister]_vars

\* The register button and the RegisterModal it opens: the modal submitted is one
\* that register_callback has shown.
FrameAliases == {<<"a", "1", "_">>, <<"a", "-", " ">>}

InitFrame == QuietView /\ QuietModal /\ QuietEnv /\ QuietMgr

NextFrame ==
    \/ Press("r1") \/ ErrSend("r1") \/ Maint("r1") \/ Defer("r1")
    \/ Respond("r1") \/ RateGet("r1") \/ Blacklist("r1") \/ RegisterGrowid("r1")
    \/ BuyGrowid("r1") \/ BuyProducts("r1") \/ BuyStock("r1") \/ RateSet("r1")
    \/ BalanceGrowid("r1") \/ BalanceGet("r1") \/ BalanceHistory("r1")
    \/ BalanceDaily("r1") \/ WorldInfo("r1") \/ HistoryGrowid("r1") \/ HistoryGet("r1")
    \/ Expire
    \/ RegSubmit("s1", ShownModals) \/ RegDefer("s1", FrameAliases)
    \/ RegRegister("s1") \/ RegSend("s1")

SpecFrame == InitFrame /\ [][NextFrame]_vars

\* get_or_create_message, force_update and set_stock_manager of a manager as
\* constructed, in a channel that may hold a message of an earlier run, which
\* the provider may know already.
InitManager ==
    /\ QuietView /\ QuietModal /\ QuietCog
    /\ cache = [k \in CacheKeys |-> NoEntry]
    /\ maint \in BOOLEAN
    /\ maintSince = maint
    /\ task = [t \in Tasks |-> IdleTask]
    /\ current_message = NoMsg
    /\ stock_manager = FALSE
    /\ ready = FALSE
    /\ retries = 0
    /\ mlock = "free"
    /\ \E old \in BOOLEAN :
          /\ chan = [m \in MsgIds |->
                       IF old /\ m = 1
                       THEN [alive |-> TRUE, body |-> "stock", view |-> "shop"]
                       ELSE NoMessage]
          /\ nextId = IF old THEN 2 ELSE 1
          /\ provMsg \in (IF old THEN {NoMsg, 1} ELSE {NoMsg})
    /\ nCreated = 0
    /\ hist = [last |-> NoMsg, again |-> "first"]
    /\ disturbed = FALSE
    /\ \E c \in BOOLEAN : world = [cog |-> TRUE, provReady |-> TRUE, channel |-> c]

NextManager ==
    \/ \E t \in Tasks :
          \/ StartGocm(t) \/ GocmAcquire(t) \/ GocmEdit(t) \/ GocmFind(t)
          \/ GocmEmbedFound(t) \/ GocmEditFound(t) \/ GocmEmbedNew(t) \/ GocmSend(t)
          \/ StartFu(t) \/ StartSsm(t) \/ FuAcquire(t) \/ FuMaint(t)
          \/ FuEditMaint(t) \/ FuUpdate(t) \/ FuEditView(t) \/ FuTimeout(t)
    \/ DeleteMessage

SpecManager == InitManager /\ [][NextManager]_vars

\* initialize() of a manager as constructed, whatever the cog, the provider and
\* the channel are like.
InitInit ==
    /\ QuietView /\ QuietModal /\ QuietEnv /\ QuietCog
    /\ task = [t \in Tasks |-> IdleTask]
    /\ current_message = NoMsg
    /\ stock_manager = FALSE
    /\ ready = FALSE
    /\ retries = 0
    /\ mlock = "free"
    /\ provMsg = NoMsg
    /\ chan = [m \in MsgIds |-> NoMessage]
    /\ nextId = 1
    /\ nCreated = 0
    /\ hist = [last |-> NoMsg, again |-> "first"]
    /\ disturbed = FALSE
    /\ world \in [cog : BOOLEAN, provReady : BOOLEAN, channel : BOOLEAN]

NextInit ==
    \/ StartInit("t1") \/ InitAttempt("t1") \/ InitWaitReady("t1") \/ InitSleep("t1")
    \/ WorldChange

SpecInit == InitInit /\ [][NextInit]_vars

\* The life of one manager, its methods called one after the other: whatever the
\* cog, the provider and the channel are like, with or without maintenance.  It
\* starts as constructed, or as one get_or_create_message without a provider
\* leaves it: holding message 1, which it has sent.  A get_or_create_message
\* called by force_update waits for the lock its caller holds and gets no further.
InitLife ==
    /\ QuietView /\ QuietModal /\ QuietCog
    /\ cache = [k \in CacheKeys |-> NoEntry]
    /\ maint \in BOOLEAN
    /\ maintSince = maint
    /\ task = [t \in Tasks |-> IdleTask]
    /\ stock_manager = FALSE
    /\ ready = FALSE
    /\ retries = 0
    /\ mlock = "free"
    /\ provMsg = NoMsg
    /\ \E held \in BOOLEAN :
          /\ current_message = IF held THEN 1 ELSE NoMsg
          /\ chan = [m \in MsgIds |->
                       IF held /\ m = 1
                       THEN [alive |-> TRUE, body |-> "init", view |-> "shop"]
                       ELSE NoMessage]
          /\ nextId = IF held THEN 2 ELSE 1
          /\ nCreated = IF held THEN 1 ELSE 0
          /\ hist = [last |-> IF held THEN 1 ELSE NoMsg, again |-> "first"]
    /\ disturbed = FALSE
    /\ world \in [cog : BOOLEAN, provReady : BOOLEAN, channel : BOOLEAN]

NextLife ==
    \/ StartFu("t1") \/ StartSsm("t1") \/ FuAcquire("t1") \/ FuMaint("t1")
    \/ FuEditMaint("t1") \/ FuUpdate("t1") \/ FuEditView("t1") \/ FuTimeout("t1")
    \/ StartInit("t1") \/ InitAttempt("t1") \/ InitWaitReady("t1") \/ InitSleep("t1")
    \/ StartRefresh("t1") \/ StartCleanup("t1") \/ CleanupBase("t1")
    \/ CleanupEdit("t1") \/ CleanupCache("t1") \/ CheckHealth("t1")
    \/ WorldChange

SpecLife == InitLife /\ [][NextLife]_vars

\* Two callers of the cog's initialize_dependencies, at the same time or one
\* after the other, while the cog, the provider and the channel appear.
NextCog ==
    \/ \E t \in Tasks :
          \/ StartDeps(t) \/ DepsAcquire(t) \/ DepsTimeout(t)
          \/ InitAttempt(t) \/ InitWaitReady(t) \/ InitSleep(t)
    \/ WorldChange

SpecCog == InitLife /\ [][NextCog]_vars

\* cleanup() called by one task while another runs force_update,
\* set_stock_manager or initialize.
NextRace ==
    \/ StartFu("t1") \/ StartSsm("t1") \/ FuAcquire("t1") \/ FuMaint("t1")
    \/ FuEditMaint("t1") \/ FuUpdate("t1") \/ FuEditView("t1") \/ FuTimeout("t1")
    \/ StartInit("t1") \/ InitAttempt("t1") \/ InitWaitReady("t1") \/ InitSleep("t1")
    \/ StartCleanup("t2") \/ CleanupBase("t2") \/ CleanupEdit("t2")
    \/ CleanupCache("t2")

SpecRace == InitLife /\ [][NextRace]_vars

\* initialize() called by one task while another calls initialize,
\* refresh_components and cleanup one after the other.
NextRetry ==
    \/ StartInit("t1") \/ InitAttempt("t1") \/ InitWaitReady("t1") \/ InitSleep("t1")
    \/ StartRefresh("t1") \/ FuAcquire("t1") \/ FuMaint("t1")
    \/ FuEditMaint("t1") \/ FuUpdate("t1") \/ FuEditView("t1") \/ FuTimeout("t1")
    \/ StartCleanup("t1") \/ CleanupBase("t1") \/ CleanupEdit("t1")
    \/ CleanupCache("t1")
    \/ StartInit("t2") \/ InitAttempt("t2") \/ InitWaitReady("t2") \/ InitSleep("t2")

SpecRetry == InitLife /\ [][NextRetry]_vars

(***************************************************************************)
(* Properties.                                                             *)
(***************************************************************************)

\* C1: of two presses in flight for the same user and action exactly one is
\* inside the handler body; a press is turned away with the cooldown message,
\* at once and without touching the lock table, exactly when another press
\* holding the same key is inside the body.
C1_OneProceedsOtherCooldown ==
    [][LET InBody(q, r) == q[r].pc \notin {"idle", "cooldown", "done"}
           Key(q, r)    == LockKey(q[r].usr, q[r].act)
       IN  /\ \A r1, r2 \in Req :
                 (r1 # r2 /\ InBody(req', r1) /\ InBody(req', r2))
                 => Key(req', r1) # Key(req', r2)
           /\ \A r \in Req :
                 (req[r].pc \in {"idle", "done"} /\ req'[r].pc \notin {"idle", "done"})
                 => LET held == \E o \in Req \ {r} :
                                    InBody(req, o) /\ Key(req, o) = Key(req', r)
                    IN  /\ held <=> (req'[r].pc = "cooldown")
                        /\ held => (req'[r].msg = "COOLDOWN" /\ rlocks' = rlocks)
                        /\ ~held => Key(req', r) \in rlocks']_vars

C1_Witness ==
    \E r1, r2 \in Req :
        /\ r1 # r2
        /\ req[r1].pc \notin {"idle", "cooldown", "done"}
        /\ req[r2].pc = "done" /\ req[r2].msg = "COOLDOWN" /\ req[r2].sent = 1
        /\ req[r1].usr = req[r2].usr /\ req[r1].act = req[r2].act

\* C2: the response lock is released on every exit of a handler: a key is held
\* only while a press with that key is inside the handler body.
C2_LockReleasedOnExit ==
    \A k \in rlocks :
        \E r \in Req : /\ req[r].pc \notin {"idle", "cooldown", "done"}
                       /\ LockKey(req[r].usr, req[r].act) = k

C2_Witness ==
    \E r \in Req :
        /\ req[r].pc = "done"
        /\ req[r].msg = FailedMsg(req[r].act)
        /\ req[r].sent = 1
        /\ rlocks = {}

\* C3: every pipeline that has ended (a button handler, PurchaseModal.on_submit,
\* RegisterModal.on_submit) has delivered exactly one terminal response.
C3_ExactlyOneResponse ==
    /\ \A r \in Req : req[r].pc = "done" => req[r].sent = 1
    /\ \A s \in Sub : sub[s].pc = "done" => sub[s].sent = 1
    /\ \A s \in Sub : reg[s].pc = "done" => reg[s].sent = 1

\* C4: while maintenance mode has been on all along, no press gets to a backend
\* call other than the maintenance check, and a press that has ended was answered
\* with the maintenance message (or the cooldown message, or the failure of the
\* maintenance check itself).
C4_MaintenanceShortCircuits ==
    maintSince =>
        \A r \in Req :
            /\ req[r].pc \in {"idle", "cooldown", "maint", "err", "done", "hung"}
            /\ req[r].pc \in {"err", "done"} =>
                  req[r].msg \in {"MAINTENANCE", "COOLDOWN", FailedMsg(req[r].act)}

\* C5: as long as no call fails and no message is deleted, a call of
\* get_or_create_message that follows one which returned a message returns that
\* same message and sends no new one.
C5_SecondCallSameHandle ==
    ~disturbed => hist.again # "other"

\* C6: as long as no call fails and no message is deleted, at most one task is
\* inside the section guarded by the manager's lock, and at most one new
\* storefront message has been sent to the channel.
C6_OneInSectionOneMessage ==
    LET InSection(t) ==
            \/ task[t].pc \notin {"idle", "done", "f_lock", "g_lock"}
            \/ task[t].pc = "g_lock" /\ task[t].inFu
    IN  ~disturbed =>
            /\ \A t1, t2 \in Tasks : (InSection(t1) /\ InSection(t2)) => t1 = t2
            /\ nCreated <= 1

\* C7: under maintenance, with the channel there, no call failing and no message
\* deleted, a force_update that has returned has reported success.
C7_MaintenanceForceUpdateSucceeds ==
    (maint /\ ChannelFound /\ ~disturbed) =>
        \A t \in Tasks :
            (task[t].op = "fu" /\ task[t].pc = "done") => task[t].retOk = "true"

\* C8: initialize() makes at most max_initialization_retries setup attempts.
C8_AtMostThreeAttempts ==
    \A t \in Tasks : task[t].op = "init" => task[t].n <= max_initialization_retries

\* C9: no button handler is left waiting for a call that never returns.
C9_NoHandlerStuck ==
    \A r \in Req : req[r].pc # "hung"

\* C10: a quantity text that has been validated went on exactly when it parses as
\* an integer in 1..999; every other text was answered with INVALID_AMOUNT and
\* caused neither a purchase nor an enqueue.
C10_QuantityAcceptedIffInRange ==
    \A s \in Sub :
        sub[s].qtext # NoText =>
            LET t == sub[s].qtext
                inRange == IntParses(t) /\ IntValue(t) >= 1 /\ IntValue(t) <= 999
            IN  /\ inRange => (sub[s].msg # "INVALID_AMOUNT" /\ sub[s].qty = IntValue(t))
                /\ ~inRange => /\ sub[s].msg = "INVALID_AMOUNT"
                               /\ sub[s].pc \in {"err", "done"}
                               /\ sub[s].bought = 0
                               /\ sub[s].queued = 0

C10_Witness ==
    \E s \in Sub :
        /\ sub[s].qtext = <<"9", "9", "9">>
        /\ sub[s].qty = 999
        /\ sub[s].queued = 1

\* C11: a submission is routed once, by its quantity: above 10 it is enqueued (and
\* acknowledged as processing) and process_purchase is never called; up to 10
\* process_purchase is called exactly once and nothing is enqueued.
C11_RoutingByQuantity ==
    \A s \in Sub :
        /\ sub[s].queued + sub[s].bought <= 1
        /\ sub[s].queued = 1 => sub[s].qty > 10
        /\ sub[s].bought = 1 => (sub[s].qty >= 1 /\ sub[s].qty <= 10)
        /\ (sub[s].pc = "enqueue" \/ sub[s].msg = "processing")
              => (sub[s].queued = 1 /\ sub[s].bought = 0)
        /\ (sub[s].pc \in {"purchase", "inval", "inval_sleep", "recover"}
              \/ sub[s].msg \in {"result", "TRANSACTION_TIMEOUT"})
              => (sub[s].bought = 1 /\ sub[s].queued = 0)

C11_Witness ==
    \E s \in Sub :
        /\ sub[s].qtext = <<"1", "1">>
        /\ sub[s].pc = "done"
        /\ sub[s].msg = "processing"
        /\ sub[s].sent = 1
        /\ sub[s].queued = 1

\* C12: when the rate-limit check of an attempt is answered while the flag of
\* that action, once set, is younger than its TTL (300 for the register button
\* and the purchase submission, 60 for the buy button), the attempt goes no
\* further and is answered with the rate-limit message (or, the cache call
\* itself failing, with the failure message); at or after the TTL the attempt is
\* not answered with the rate-limit message.
C12_RateLimitWindow ==
    [][/\ \A r \in Req :
             (req[r].pc = "rl_get" /\ req'[r].pc # "rl_get")
             => LET e == cache[RateKey(req[r].act, req[r].usr)]
                    T == IF req[r].act = "register" THEN 300 ELSE 60
                IN  /\ (e.ttl > 0 /\ e.age < T)
                       => /\ req'[r].pc \in {"err", "hung"}
                          /\ req'[r].pc = "err"
                                => req'[r].msg \in {"RATE_LIMIT", FailedMsg(req[r].act)}
                    /\ (e.ttl = 0 \/ e.age >= T) => req'[r].msg # "RATE_LIMIT"
       /\ \A s \in Sub :
             (sub[s].pc = "rl_get" /\ sub'[s].pc # "rl_get")
             => LET e == cache[PurchaseKey(sub[s].usr)]
                IN  /\ (e.ttl > 0 /\ e.age < 300)
                       => /\ sub'[s].pc \in {"err", "hung"}
                          /\ sub'[s].pc = "err"
                                => sub'[s].msg \in {"RATE_LIMIT", "TRANSACTION_FAILED"}
                    /\ (e.ttl = 0 \/ e.age >= 300) => sub'[s].msg # "RATE_LIMIT"]_vars

C12_Witness ==
    \E r \in Req :
        /\ req[r].act = "buy"
        /\ req[r].pc = "done"
        /\ req[r].msg = "RATE_LIMIT"
        /\ req[r].sent = 1
        /\ cache[RateKey("buy", req[r].usr)] = [ttl |-> 60, age |-> 59]

\* C13: with the channel there, no call failing and no message deleted, a
\* force_update that has returned has reported success and the manager holds a
\* message handle, whether or not it held one when force_update was called.
C13_ForceUpdateEnsuresMessage ==
    (ChannelFound /\ ~disturbed) =>
        \A t \in Tasks :
            (task[t].op = "fu" /\ task[t].pc = "done")
            => (task[t].retOk = "true" /\ current_message # NoMsg)

\* C14: when an edit of force_update (the maintenance edit or the view edit)
\* finds the message gone, the handle is cleared and False is returned.
C14_NotFoundClearsHandle ==
    [][\A t \in Tasks :
          ((FuEditMaint(t) \/ FuEditView(t)) /\ ~Alive(current_message))
          => (current_message' = NoMsg /\ task'[t].retOk = "false")]_vars

\* C15: when cleanup ends, however its sub-steps went, the ready flag is
\* cleared, no message handle is held and no provider is attached.
C15_CleanupResetsState ==
    [][\A t \in Tasks :
          (task[t].op = "cleanup" /\ task[t].pc # "done" /\ task'[t].pc = "done")
          => (~ready' /\ current_message' = NoMsg /\ ~stock_manager')]_vars

\* C16: with no call failing, a refresh_components called in Ready, with the cog
\* loaded, the provider ready and the channel there, has ended in Ready
\* returning True; and a cleanup that has ended has left the manager
\* Uninitialized.
C16_Lifecycle ==
    ~disturbed =>
        \A t \in Tasks :
            /\ (task[t].op = "refresh" /\ task[t].pc = "done" /\ task[t].wasReady
                  /\ world.cog /\ world.provReady /\ world.channel)
               => (task[t].retOk = "true" /\ ready)
            /\ (task[t].op = "cleanup" /\ task[t].pc = "done")
               => (~ready /\ current_message = NoMsg /\ ~stock_manager)

\* C17: check_health answers "healthy" exactly when the ready flag is set, a
\* message handle is held, a provider is attached and the channel is found, and
\* "degraded" otherwise; it changes nothing of the manager.
C17_HealthStatus ==
    [][\A t \in Tasks :
          (task'[t].op = "health" /\ task'[t] # task[t])
          => /\ task'[t].retOk \in {"healthy", "degraded"}
             /\ (task'[t].retOk = "healthy")
                   <=> (ready /\ current_message # NoMsg /\ stock_manager /\ world.channel)
             /\ UNCHANGED <<current_message, stock_manager, ready, retries, mlock,
                            provMsg, chan, nextId, nCreated, world>>]_vars

C17_Witness ==
    \E t \in Tasks :
        /\ task[t].op = "health"
        /\ task[t].retOk = "healthy"
        /\ ready /\ current_message # NoMsg /\ stock_manager /\ world.channel

\* C18: register_user is called only with an alias that, trimmed, is at least
\* MinAliasLen and at most the field's maximum of characters long and made of
\* letters, digits and underscores only; every other submitted text ends in the
\* invalid-format error with no register_user call.
C18_AliasContract ==
    \A s \in Sub :
        /\ reg[s].calls > 0 =>
              /\ Len(reg[s].growid) \in MinAliasLen..MaxAliasLen
              /\ \A i \in 1..Len(reg[s].growid) :
                     reg[s].growid[i] \in Letters \cup Digits \cup {"_"}
        /\ (reg[s].alias # NoText /\ reg[s].calls = 0) =>
              reg[s].msg = "INVALID_GROWID_FORMAT"

\* C19: a successful registration is shown as "registered" exactly when the
\* get_growid lookup made before the modal was opened gave no alias (it failed or
\* had no data) and as "updated" exactly when it succeeded with data; whether
\* register_user is called, and with what, depends on the typed alias alone.
C19_FramingFollowsLookup ==
    \A s \in Sub :
        /\ (reg[s].pc = "done" /\ reg[s].msg = "result" /\ reg[s].sent = 1) =>
              /\ reg[s].title = "registered" <=> reg[s].lookup \in {"nodata", "fail"}
              /\ reg[s].title = "updated" <=> reg[s].lookup = "data"
        /\ reg[s].alias # NoText =>
              /\ reg[s].calls = 1 <=> AliasValid(reg[s].alias)
              /\ reg[s].calls = 1 => reg[s].growid = Strip(reg[s].alias)

C19_Witness ==
    /\ reg["s1"].pc = "done" /\ reg["s1"].msg = "result" /\ reg["s1"].sent = 1
    /\ reg["s1"].title = "registered" /\ reg["s1"].lookup = "nodata"
    /\ req["r1"].act = "register" /\ req["r1"].msg = "modal"

\* C20: no error response of the purchase submission carries the error text of
\* a failed backend response; each is a message of the predefined table.
C20_NoBackendErrorText ==
    \A s \in Sub : sub[s].sent > 0 => sub[s].msg # "BACKEND_ERROR"

\* C21: the checks of the register and buy buttons reject in the order
\* maintenance, blacklist, rate limit: the rate-limit message is shown only when
\* maintenance mode is off, and neither the maintenance check nor the blacklist
\* check is evaluated after the rate-limit check.
C21_CheckOrder ==
    [][\A r \in Req :
          /\ (req[r].pc = "rl_get" /\ req'[r].pc = "err" /\ req'[r].msg = "RATE_LIMIT")
                => ~maint
          /\ ~(req[r].pc = "rl_get" /\ req'[r].pc \in {"maint", "blacklist"})]_vars

\* C22: current_message changes only in a step of the task that holds the
\* manager's lock, whenever a task holds it: no other operation, cleanup
\* included, changes it while a task is inside get_or_create_message or
\* force_update.
C22_HandleMutatedUnderLock ==
    [][(current_message' # current_message /\ mlock # "free")
          => task'[mlock] # task[mlock]]_vars

\* C23: with a provider attached, whenever get_or_create_message or force_update
\* returns, by success or by failure, current_message and the provider's
\* current_stock_message are the same message or both empty; in particular the
\* returning step of a call does not part the two when they agreed before it.
C23_ProviderConsistent ==
    [][\A t \in Tasks :
          (task[t].pc # "done" /\ task'[t].pc = "done"
             /\ task'[t].op \in {"gocm", "fu"} /\ stock_manager /\ stock_manager'
             /\ current_message = provMsg)
          => current_message' = provMsg']_vars

C25_RecoveryAfterRaise ==
    \A s \in Sub :
        (sub[s].pc = "done" /\ sub[s].bought = 1 /\ ~sub[s].hasResp
           /\ sub[s].msg \in {"TRANSACTION_FAILED", "escaped"})
        => (sub[s].recov = 1 /\ sub[s].msg = "TRANSACTION_FAILED" /\ sub[s].sent = 1)

\* C26: a submission whose process_purchase call ran into its timeout has called
\* process_purchase exactly once, has deleted no cache key, has made no recovery
\* call, and is answered with the transaction-timeout message and nothing else.
C26_PurchaseTimeoutNotRetried ==
    /\ \A s \in Sub :
          sub[s].msg = "TRANSACTION_TIMEOUT" =>
             /\ sub[s].pc \in {"err", "done"}
             /\ sub[s].bought = 1 /\ sub[s].queued = 0
             /\ sub[s].tried = <<>> /\ sub[s].recov = 0
             /\ sub[s].pc = "done" => sub[s].sent = 1
    /\ \A s \in Sub : sub[s].bought <= 1

C26_Witness ==
    /\ sub["s1"].pc = "done" /\ sub["s1"].msg = "TRANSACTION_TIMEOUT"
    /\ sub["s1"].sent = 1 /\ sub["s1"].bought = 1

\* C27: a registration whose register_user call failed with the 'lock busy'
\* reason is answered with the soft 'please wait' message, once, and with no
\* error message; one that failed with another reason is answered with an error
\* message.
C27_LockBusyIsSoft ==
    \A s \in Sub :
        /\ reg[s].resp = "busy" =>
              /\ reg[s].pc \in {"send", "done"} /\ reg[s].msg = "please_wait"
              /\ reg[s].pc = "done" => reg[s].sent = 1
        /\ reg[s].resp = "fail" =>
              /\ reg[s].pc \in {"err", "done"} /\ reg[s].msg = "BACKEND_ERROR"
              /\ reg[s].pc = "done" => reg[s].sent = 1
        /\ reg[s].sent <= 1

C27_Witness ==
    /\ reg["s1"].resp = "busy" /\ reg["s1"].pc = "done"
    /\ reg["s1"].msg = "please_wait" /\ reg["s1"].sent = 1

\* C28: while a user's purchase rate-limit key is live, the submissions of that
\* user have issued at most one purchase between them (a process_purchase call
\* or an enqueue), also when two of them interleave.
C28_OnePurchasePerWindow ==
    \A u \in Users :
        CacheHit(PurchaseKey(u)) =>
            \A s1, s2 \in Sub :
                (s1 # s2 /\ sub[s1].usr = u /\ sub[s2].usr = u)
                => sub[s1].bought + sub[s1].queued + sub[s2].bought + sub[s2].queued <= 1

\* C29: recover_failed_transaction is never called by a submission whose
\* process_purchase call returned a successful response (a response is bound and
\* it is not the failed one, whose error is the pending message).
C29_NoRecoveryAfterSuccess ==
    \A s \in Sub :
        (sub[s].hasResp /\ sub[s].msg # "BACKEND_ERROR") => sub[s].recov = 0

\* C30: whenever the ready flag is set a provider is attached, also while
\* cleanup runs beside an initialize or a set_stock_manager in flight.
C30_ReadyImpliesProvider == ready => stock_manager

C32_FlagSetBeforeValidation ==
    [][\A s \in Sub :
          LET inLoop  == sub[s].pc \in {"rl_set", "rl_sleep"}
              leaves  == inLoop /\ sub'[s].pc \notin {"rl_set", "rl_sleep", "hung"}
              fresh   == cache'[PurchaseKey(sub[s].usr)] = [ttl |-> PurchaseTTL, age |-> 0]
          IN  /\ leaves => (fresh \/ (sub[s].pc = "rl_sleep" /\ sub[s].retry = 3))
              /\ (sub'[s].qtext # sub[s].qtext /\ sub'[s].pc # "rl_get") => leaves
              /\ (sub'[s] # sub[s] /\ sub[s].pc # "rl_set") => cache' = cache]_vars

\* C32 as stated: every submission that got past the rate-limit check leaves the
\* flag set.
C32_EveryPassLeavesFlag ==
    [][\A s \in Sub :
          (sub[s].pc \in {"defer", "rl_set", "rl_sleep"}
             /\ sub'[s].pc \notin {"defer", "rl_set", "rl_sleep", "hung"})
          => cache'[PurchaseKey(sub[s].usr)] = [ttl |-> PurchaseTTL, age |-> 0]]_vars

C32_Witness ==
    /\ sub["s1"].pc = "done" /\ sub["s1"].msg = "INVALID_AMOUNT" /\ sub["s1"].sent = 1
    /\ cache[PurchaseKey("u1")] = [ttl |-> PurchaseTTL, age |-> 0]

\* C33: a press that is denied the response lock does nothing but deliver the
\* cooldown message: from the denial to its return it changes neither the set of
\* held locks nor the cache, and its only step after the denial is the send of
\* that message, after which the handler has returned.
C33_DeniedPressHasNoEffect ==
    [][\A r \in Req :
          /\ (req'[r].pc = "cooldown" /\ req'[r] # req[r]) =>
                /\ rlocks' = rlocks /\ cache' = cache
                /\ LockKey(req'[r].usr, req'[r].act) \in rlocks
                /\ req'[r].msg = "COOLDOWN" /\ req'[r].sent = 0
          /\ (req[r].pc = "cooldown" /\ req'[r] # req[r]) =>
                /\ rlocks' = rlocks /\ cache' = cache
                /\ req'[r].pc = "done" /\ req'[r].msg = "COOLDOWN"
                /\ req'[r].sent = 1]_vars

C33_Witness ==
    /\ req["r2"].pc = "done" /\ req["r2"].msg = "COOLDOWN" /\ req["r2"].sent = 1
    /\ req["r1"].pc = "rl_set" /\ req["r1"].act = req["r2"].act
    /\ LockKey(req["r1"].usr, req["r1"].act) \in rlocks

\* C34: in register_callback and buy_callback the cache is written by one step
\* only, the rate-limit set that is followed by send_modal; every precondition
\* (maintenance, rate limit, blacklist, queue size, identity lookup, products,
\* stock) is evaluated before that step, so a press they reject leaves the cache
\* as it found it.
C34_FlagOnlyOnModalPath ==
    [][\A r \in Req :
          LET rejects == {"MAINTENANCE", "RATE_LIMIT", "USER_BLACKLISTED", "SYSTEM_BUSY",
                          "BACKEND_ERROR", "NO_PRODUCTS", "TIMEOUT", "OUT_OF_STOCK"}
              checks  == {"maint", "rl_get", "blacklist", "growid", "products", "stock"}
          IN  (req'[r] # req[r] /\ req[r].act \in {"register", "buy"}
                               /\ req[r].pc \notin {"idle", "done"}) =>
                 /\ cache' # cache =>
                       /\ req[r].pc = "rl_set" /\ req'[r].pc = "send_modal"
                       /\ cache' = CacheSet(RateKey(req[r].act, req[r].usr),
                                            RateTTL(req[r].act))
                 /\ (req'[r].pc = "err" /\ req'[r].msg \in rejects) =>
                       req[r].pc \in checks /\ cache' = cache
                 /\ req[r].pc \in {"rl_set", "send_modal", "err"} =>
                       req'[r].pc \notin checks]_vars

C34_Witness ==
    /\ req["r1"].act = "buy" /\ req["r1"].pc = "done" /\ req["r1"].msg = "OUT_OF_STOCK"
    /\ cache[RateKey("buy", req["r1"].usr)] = NoEntry
    /\ req["r2"].act = "register" /\ req["r2"].pc = "done"
    /\ req["r2"].msg = "USER_BLACKLISTED"
    /\ cache[RateKey("register", req["r2"].usr)] = NoEntry

\* C35: every step on which force_update ends is a return of True or False (no
\* exception leaves it), and after it the task does not hold the reconciliation
\* mutex; this includes the expiry of the 30 s timeout while the task waits, inside
\* its own critical section, for the mutex in get_or_create_message.
C35_ForceUpdateReturnsAndReleases ==
    [][\A t \in Tasks :
          /\ (task[t].inFu /\ ~task'[t].inFu) =>
                /\ task'[t].pc = "done"
                /\ task'[t].retOk \in {"true", "false"}
                /\ mlock' # t
                /\ (mlock = t => mlock' = "free")
          /\ (task'[t].pc = "done" /\ task'[t].op \in {"fu", "ssm"}) => mlock' # t]_vars

C35_Witness ==
    /\ task["t1"].op = "fu" /\ task["t1"].pc = "done" /\ task["t1"].retOk = "false"
    /\ world.channel /\ ~disturbed /\ current_message = NoMsg
    /\ mlock = "free" /\ task["t2"].pc = "idle"

\* C36: a cleanup called right after a cleanup that returned, as teardown calls
\* it after cog_unload, finds the manager Uninitialized (ready cleared, no
\* message handle, no provider), awaits no message edit, changes no message and
\* leaves the manager Uninitialized at every step, however it ends.
C36_SecondCleanupIdempotent ==
    [][\A t \in Tasks :
          (task[t].op = "cleanup" /\ task[t].repeat /\ task[t].pc # "done"
              /\ task'[t] # task[t])
          => /\ ~ready /\ current_message = NoMsg /\ ~stock_manager
             /\ ~ready' /\ current_message' = NoMsg /\ ~stock_manager'
             /\ chan' = chan
             /\ task'[t].op = "cleanup" /\ task'[t].pc # "c_edit"]_vars

C36_Witness ==
    /\ task["t1"].op = "cleanup" /\ task["t1"].repeat
    /\ task["t1"].pc = "done" /\ task["t1"].retOk = "returned"
    /\ chan[1].alive /\ chan[1].body = "maint" /\ chan[1].view = "none"
    /\ ~ready /\ current_message = NoMsg /\ ~stock_manager

\* C37: whenever get_or_create_message returns to its caller, the value it
\* returns is the manager's current_message: the stored handle when it returns a
\* message, and None only with current_message None.
C37_ReturnEqualsCurrentMessage ==
    [][\A t \in Tasks :
          (task[t].op = "gocm" /\ task[t].pc # "done" /\ task'[t].pc = "done")
          => hist'.last = current_message']_vars

\* C38: calls of the cog's initialize_dependencies are serialized by its lock:
\* a call is inside initialize() only while it holds the lock.  initialize()
\* returns True to such a call only while the cog's ready flag is clear, and that
\* step sets the flag; the flag changes at no other step and is never cleared,
\* so initialize() succeeds at most once.  A call that gets the lock with the flag
\* set returns True and changes nothing of the manager.
C38_InitializeDependenciesOnce ==
    [][LET succeeds(t) == /\ task[t].op = "deps" /\ task[t].pc = "i_ready"
                          /\ task'[t].pc = "done" /\ task'[t].retOk = "true"
       IN  /\ \A t \in Tasks :
                 /\ succeeds(t) =>
                       /\ ~cog_ready /\ cog_ready' /\ ready'
                       /\ initialization_lock = t /\ initialization_lock' = "free"
                 /\ (task[t].pc = "d_lock" /\ cog_ready /\ task'[t] # task[t]) =>
                       /\ task'[t].pc = "done" /\ task'[t].retOk = "true"
                       /\ UNCHANGED <<current_message, stock_manager, ready, retries,
                                      mlock, provMsg, chan, nextId>>
                 /\ (task'[t].op = "deps" /\ task'[t].pc \in {"i_loop", "i_ready", "i_sleep"})
                       => initialization_lock' = t
                 /\ (task'[t].op = "deps" /\ task'[t].pc = "done")
                       => initialization_lock' # t
           /\ cog_ready' # cog_ready => \E t \in Tasks : succeeds(t)
           /\ cog_ready => cog_ready']_vars

C38_Witness ==
    /\ cog_ready /\ ready /\ initialization_lock = "free"
    /\ task["t1"].op = "deps" /\ task["t1"].pc = "done" /\ task["t1"].retOk = "true"
    /\ task["t1"].n > 0
    /\ task["t2"].op = "deps" /\ task["t2"].pc = "done" /\ task["t2"].retOk = "true"
    /\ task["t2"].n = 0

====
